---- MODULE Spec2Model ----
(***************************************************************************)
(* Model of the metrics collection system: TypedMetric accumulators, the   *)
(* MetricCollector (record / register / start / stop / flush and the       *)
(* background processMetrics loop), the MetricWriter sink and the          *)
(* MetricRegistry.  Threads are modelled by a program counter and a record *)
(* of locals each; std::mutex objects by the id of the thread owning them. *)
(*                                                                         *)
(* Numbers.  An int is 32 bits wide.  Fractional samples (double, float)   *)
(* are exact rationals counted in hundredths, so 0.5 is 50; binary         *)
(* floating point rounding is not modelled.  long samples stay small.      *)
(***************************************************************************)
EXTENDS Integers, Sequences, FiniteSets, TLC

(***************************************************************************)
(* Bounds of the model.                                                    *)
(***************************************************************************)
MaxRecords == 2
MaxCycles == 2
MaxAdds == 2

(***************************************************************************)
(* Program constants.                                                      *)
(***************************************************************************)
IntMax == 2147483647
QuoteChar == 34
FirstPrintable == 32

(***************************************************************************)
(* Threads.                                                                *)
(***************************************************************************)
NoThread == 0 - 1
Ctl == 0
Producers == {1, 2}
Workers == {11, 12}
Callers == Producers \cup {Ctl}
Threads == Callers \cup Workers

(***************************************************************************)
(* Metric names are strings of character codes.                            *)
(***************************************************************************)
NameCPU == <<67, 80, 85>>
NameHTTP == <<72>>
NameEmpty == <<>>
NameQuote == <<67, 34>>
NameCtrl == <<10>>

IntegralKinds == {"int", "long"}
FractionalKinds == {"double", "float"}
Kinds == IntegralKinds \cup FractionalKinds

VARIABLES
    running,        \* MetricCollector::running_
    metrics,        \* MetricCollector::metrics_ : the TypedMetric objects, in vector order
    metrics_mutex,  \* owner of MetricCollector::metrics_mutex_
    worker_thread,  \* MetricCollector::worker_thread_ : 0, or the joinable worker
    file_open,      \* MetricWriter::file_stream_.is_open()
    write_mutex,    \* owner of MetricWriter::write_mutex_
    sink,           \* the lines appended to the output file
    clock,          \* the wall clock read by TimestampUtils::getCurrentTime
    registry,       \* the MetricRegistry: metrics_ (name -> metric), and the owner and
                    \* the shared holders of registry_mutex_
    pc,             \* per thread: where it is
    loc,            \* per thread: its locals
    aborted,        \* the process was terminated
    nrec,           \* the recordMetric calls made so far
    ncycle,         \* the flush cycles asked for so far
    hist,           \* history kept for the properties only
    manager         \* the MetricSystemManager: is_running_, and the member
                    \* function the controlling thread is in

vars == <<running, metrics, metrics_mutex, worker_thread, file_open, write_mutex,
          sink, clock, registry, pc, loc, aborted, nrec, ncycle, hist, manager>>

(***************************************************************************)
(* Numbers.                                                                *)
(***************************************************************************)
RECURSIVE Gcd(_, _)
Gcd(a, b) == IF b = 0 THEN a ELSE Gcd(b, a % b)

Abs(x) == IF x < 0 THEN 0 - x ELSE x

\* The rational n/d in lowest terms (d > 0).
Rat(n, d) ==
    LET g == Gcd(Abs(n), d)
    IN  [num |-> n \div g, den |-> d \div g]

\* The whole number n.
RatInt(n) == [num |-> n, den |-> 1]

IsFractional(kind) == kind \in FractionalKinds

\* The samples a caller may record, by kind.  An int sample may be INT_MAX
\* (SpecificMetrics.h: "integer numbers from 0 to INT_MAX").
Samples(kind) ==
    CASE kind = "int" -> {1, IntMax}
      [] kind = "long" -> {1, 3}
      [] OTHER -> {50, 100}

\* accumulated_value_ += value overflows an int: signed overflow is undefined.
Overflows(kind, a, v) == kind = "int" /\ v > 0 /\ a > IntMax - v

\* Two's complement wrap-around of a + v, for a + v > IntMax.
Wrap(a, v) == (a - (IntMax - v) - 1) + (0 - IntMax - 1)

(***************************************************************************)
(* MetricNameValidator.                                                    *)
(***************************************************************************)
\* A variant of the validation that rejects the empty name only.
isValidName_NonEmpty(name) == Len(name) > 0

isValidName(name) ==
    /\ Len(name) > 0
    /\ \A k \in 1 .. Len(name) :
          ~ (name[k] = QuoteChar \/ name[k] = 10 \/ name[k] = 13 \/ name[k] = 9
             \/ name[k] < FirstPrintable)

formatNameForOutput(name) == <<QuoteChar>> \o name \o <<QuoteChar>>

(***************************************************************************)
(* TypedMetricValue<T>: value_ (a rational) and count_.                    *)
(***************************************************************************)
\* TypedMetricValue(T value): count_(value != T{} ? 1 : 0)
TypedMetricValue(kind, q) ==
    [kind |-> kind, value_ |-> q, count_ |-> IF q.num # 0 THEN 1 ELSE 0]

\* a / b of two integers, b > 0: the quotient is truncated towards zero.
TruncDiv(a, b) == IF a >= 0 THEN a \div b ELSE (a + b - 1) \div b

\* getValue(): count_ > 0 ? value_ / count_ : T{}; the division is an integer
\* division for an integral T.
getValue(v) ==
    IF v.count_ > 0
    THEN IF IsFractional(v.kind)
         THEN Rat(v.value_.num, v.value_.den * v.count_)
         ELSE RatInt(TruncDiv(v.value_.num, v.count_))
    ELSE Rat(0, 1)

\* A rational number of hundredths rounded to a whole number of hundredths,
\* ties to even.
Fixed2(q) ==
    LET f == q.num \div q.den
        r == 2 * (q.num % q.den)
    IN  IF r > q.den \/ (r = q.den /\ f % 2 = 1) THEN f + 1 ELSE f

\* toString(): "0" for no sample, fixed 2 decimals for a floating point T (the
\* text is kept as its number of hundredths), plain decimal otherwise.
toString(v) ==
    IF v.count_ = 0 THEN [form |-> "decimal", digits |-> 0]
    ELSE IF IsFractional(v.kind)
         THEN [form |-> "fixed2", digits |-> Fixed2(getValue(v))]
         ELSE [form |-> "decimal", digits |-> getValue(v).num]

\* a + b on rationals.
RatAdd(a, b) ==
    IF a.den = 1 /\ b.den = 1 THEN RatInt(a.num + b.num)
    ELSE Rat(a.num * b.den + b.num * a.den, a.den * b.den)

\* a += b overflows an int, upwards or downwards: signed overflow is undefined.
AddOverflows(kind, a, b) ==
    /\ kind = "int"
    /\ \/ b > 0 /\ a > IntMax - b
       \/ b < 0 /\ a < (0 - IntMax - 1) - b

\* Two's complement wrap-around of a + b where it overflows.
WrapAdd(a, b) ==
    IF b > 0 THEN Wrap(a, b) ELSE (a + IntMax + 1) + (b + IntMax + 1)

\* a += b on the numbers of a kind: an int wraps where the build does not trap.
SumOf(kind, a, b) ==
    IF AddOverflows(kind, a.num, b.num) THEN RatInt(WrapAdd(a.num, b.num))
    ELSE RatAdd(a, b)

\* A value object with its history: the exact sum and the number of the
\* samples it was given since it was made or reset (ovf: the exact sum left
\* the range of an int).  A value constructed from v # T{} holds the one
\* sample v.
Tracked(v) == [obj |-> v, sum |-> v.value_, n |-> v.count_, ovf |-> FALSE]

\* The history of a value that was given samples of sum q, n in number.
TrackAdd(tr, q, n, ovf) ==
    LET over == tr.ovf \/ ovf \/ AddOverflows(tr.obj.kind, tr.sum.num, q.num)
    IN  [tr EXCEPT !.sum = IF over THEN @ ELSE RatAdd(@, q),
                   !.n = @ + n,
                   !.ovf = over]

\* addValue(val): value_ += val; count_++.
addValue(v, val) ==
    [v EXCEPT !.value_ = SumOf(v.kind, @, RatInt(val)), !.count_ = @ + 1]

\* TypedMetricValue<T>::reset().
ResetValue(v) == [v EXCEPT !.value_ = Rat(0, 1), !.count_ = 0]

\* A variant of accumulate without the dynamic_cast test.
accumulate_NoCast(v, other) ==
    [thrown |-> "none",
     v |-> [v EXCEPT !.value_ = SumOf(v.kind, @, other.value_),
                     !.count_ = @ + other.count_]]

\* accumulate(other): dynamic_cast<const TypedMetricValue<T>*>(&other) is null
\* for a value of another T, and std::invalid_argument is thrown; else
\* value_ += other.value_ and count_ += other.count_.
accumulate(v, other) ==
    IF other.kind # v.kind
    THEN [thrown |-> "TypeMismatch", v |-> v]
    ELSE [thrown |-> "none",
          v |-> [v EXCEPT !.value_ = SumOf(v.kind, @, other.value_),
                          !.count_ = @ + other.count_]]

(***************************************************************************)
(* TypedMetric<T>.  accumulated_value_ of a fractional kind is counted in  *)
(* hundredths.  ids names the samples the accumulator holds, and g_sum,    *)
(* g_cnt, g_ovf are the exact sum and number of the samples recorded since *)
(* the end of the last flush cycle (g_ovf: the exact sum is above          *)
(* INT_MAX); the three are history, read by the properties only.           *)
(***************************************************************************)
TypedMetric(name, kind) ==
    [name |-> name, kind |-> kind, mutex_ |-> NoThread,
     accumulated_value_ |-> 0, count_ |-> 0,
     ids |-> {}, g_sum |-> 0, g_cnt |-> 0, g_ovf |-> FALSE]

\* A variant of getAccumulatedValue() that returns the total for every kind.
getAccumulatedValue_Total(m) ==
    IF m.count_ = 0 THEN TypedMetricValue(m.kind, Rat(0, 1))
    ELSE TypedMetricValue(m.kind, RatInt(m.accumulated_value_))

\* getAccumulatedValue(), the part under mutex_.
getAccumulatedValue(m) ==
    IF m.count_ = 0 THEN TypedMetricValue(m.kind, Rat(0, 1))
    ELSE IF IsFractional(m.kind)
         THEN TypedMetricValue(m.kind, Rat(m.accumulated_value_, m.count_))
         ELSE TypedMetricValue(m.kind, RatInt(m.accumulated_value_))

\* reset(), the part under mutex_.
ResetMetric(m) == [m EXCEPT !.accumulated_value_ = 0, !.count_ = 0, !.ids = {}]

\* std::find_if over metrics_ by name: the index found, 0 for end().
FindMetric(ms, name) ==
    IF \E k \in 1 .. Len(ms) : ms[k].name = name
    THEN CHOOSE k \in 1 .. Len(ms) :
            ms[k].name = name /\ \A j \in 1 .. k - 1 : ms[j].name # name
    ELSE 0

(***************************************************************************)
(* Initial state: a collector just constructed on an open writer, and an   *)
(* empty registry.                                                         *)
(***************************************************************************)
Loc0 ==
    [name |-> <<>>, kind |-> "int", val |-> 0, id |-> 0, auto |-> FALSE,
     target |-> 0, tmp |-> 0, tmpc |-> 0,
     i |-> 0, entries |-> <<>>, ts |-> 0, ret |-> "none", dtor |-> 0,
     pre |-> {},
     recv |-> Tracked(TypedMetricValue("int", Rat(0, 1))),
     other |-> Tracked(TypedMetricValue("int", Rat(0, 1))),
     arg |-> TypedMetric(<<>>, "int"),
     text |-> <<>>,     \* a formatted name
     back |-> <<>>]     \* the name extracted from it

Hist0 ==
    [added |-> {},      \* the samples accumulated so far
     clean |-> FALSE,   \* the last flush cycle ended after its reset, and no record
                        \* landed and no other cycle ran while it ran
     quiet |-> TRUE,    \* no record landed and no other cycle ran since the cycle
                        \* in progress began
     res |-> [t \in Callers |-> "none"],   \* how the caller's last call ended
     startPre |-> {},   \* the samples accumulated when start() last set running_
     stopPre |-> {},    \* the samples accumulated when stop() was last called
     stopDone |-> FALSE,   \* the last stop() called found the collector running
                           \* and has returned
     failed |-> FALSE,  \* some flush cycle caught an exception of writeMetrics
     dtorPre |-> {},    \* the samples the accumulators held when the destructor's
                        \* stop() had joined the worker
     seen |-> [t \in Callers |-> {}]]   \* the names whose registration with the
                        \* registry had returned when the caller's lookup was called

Init ==
    /\ running = FALSE
    /\ metrics = <<>>
    /\ metrics_mutex = NoThread
    /\ worker_thread = 0
    /\ file_open = TRUE
    /\ write_mutex = NoThread
    /\ sink = <<>>
    /\ clock = 1
    /\ registry = [metrics_ |-> <<>>, registry_mutex_ |-> NoThread, readers |-> {}]
    /\ pc = [t \in Threads |-> IF t \in Workers THEN "unborn" ELSE "idle"]
    /\ loc = [t \in Threads |-> Loc0]
    /\ aborted = FALSE
    /\ nrec = 0 /\ ncycle = 0
    /\ hist = Hist0
    /\ manager = [is_running_ |-> FALSE, call |-> "none"]

\* The labels of collectCurrentMetrics.
CollectLabels ==
    {"c_lock", "c_snap", "c_read", "c_wlock", "c_write", "c_rlock", "c_reset", "c_zero"}

InCycle(t) == pc[t] \in CollectLabels

\* std::terminate, or a trap: the process is gone, and no thread takes a step.
Terminated == [t \in Threads |-> "dead"]

SomeCycle == \E t \in Threads : InCycle(t)

(***************************************************************************)
(* std::mutex.                                                             *)
(***************************************************************************)
\* std::lock_guard<std::mutex> lock(metrics_mutex_) can be taken.
MetricsMutexFree == metrics_mutex = NoThread

\* A variant of a block that keeps metrics_mutex_ at its end.
LookupRelease_Held(t) == t

\* The end of a lookup block of recordMetric: the lock_guard releases
\* metrics_mutex_ (the new owner).
LookupRelease(t) == NoThread

\* A variant of the snapshot block that keeps metrics_mutex_ at its end.
SnapshotRelease_Held(t) == t

\* The end of the snapshot block of collectCurrentMetrics: the lock_guard
\* releases metrics_mutex_ (the new owner).
SnapshotRelease(t) == NoThread

\* std::lock_guard<std::mutex> lock(mutex_) of TypedMetric<T>::recordValue(T).
RecordValueCanLock(m) == m.mutex_ = NoThread

\* std::lock_guard<std::mutex> lock(mutex_) of getAccumulatedValue and reset.
MetricCanLock(m) == m.mutex_ = NoThread

(***************************************************************************)
(* MetricCollector::registerMetric<T>(name), under metrics_mutex_.         *)
(***************************************************************************)
\* A variant that replaces the metric registered under the name.
registerMetric_Overwrite(ms, name, kind) ==
    IF FindMetric(ms, name) # 0
    THEN [thrown |-> "none",
          ms |-> [ms EXCEPT ![FindMetric(ms, name)] = TypedMetric(name, kind)]]
    ELSE [thrown |-> "none", ms |-> Append(ms, TypedMetric(name, kind))]

\* A variant that gives the metric registered under the name the new kind.
registerMetric_Retype(ms, name, kind) ==
    IF FindMetric(ms, name) # 0
    THEN [thrown |-> "none", ms |-> [ms EXCEPT ![FindMetric(ms, name)].kind = kind]]
    ELSE [thrown |-> "none", ms |-> Append(ms, TypedMetric(name, kind))]

\* A variant without the find_if: the metric is always added.
registerMetric_NoFind(ms, name, kind) ==
    [thrown |-> "none", ms |-> Append(ms, TypedMetric(name, kind))]

registerMetric(ms, name, kind) ==
    IF FindMetric(ms, name) # 0
    THEN [thrown |-> "NameConflict", ms |-> ms]
    ELSE [thrown |-> "none", ms |-> Append(ms, TypedMetric(name, kind))]

\* A caller calls registerMetric<kind>(name).
RegisterCall(t, names, kinds) ==
    /\ pc[t] = "idle"
    /\ \E name \in names, kind \in kinds :
          loc' = [loc EXCEPT ![t] = [Loc0 EXCEPT !.name = name, !.kind = kind]]
    /\ pc' = [pc EXCEPT ![t] = "g_lock"]
    /\ hist' = [hist EXCEPT !.res[t] = "none"]
    /\ UNCHANGED <<manager, running, metrics, metrics_mutex, worker_thread, file_open,
                   write_mutex, sink, clock, registry, aborted, nrec, ncycle>>

\* registerMetric: std::lock_guard<std::mutex> lock(metrics_mutex_).
RegLock(t) ==
    /\ pc[t] = "g_lock" /\ MetricsMutexFree
    /\ metrics_mutex' = t
    /\ pc' = [pc EXCEPT ![t] = "g_body"]
    /\ UNCHANGED <<manager, running, metrics, worker_thread, file_open, write_mutex, sink,
                   clock, registry, loc, aborted, nrec, ncycle, hist>>

\* registerMetric: the check, the push_back or the throw, and the unlock.  The
\* exception of a registration made by recordMetric is caught there, and
\* recordMetric returns.
RegBody(t) ==
    /\ pc[t] = "g_body"
    /\ LET r == registerMetric(metrics, loc[t].name, loc[t].kind)
       IN  /\ metrics' = r.ms
           /\ IF loc[t].auto
              THEN /\ pc' = [pc EXCEPT ![t] =
                                IF r.thrown = "none" THEN "r_lock2" ELSE "idle"]
                   /\ loc' = [loc EXCEPT ![t] =
                                IF r.thrown = "none" THEN loc[t] ELSE Loc0]
                   /\ hist' = [hist EXCEPT !.res[t] =
                                IF r.thrown = "none" THEN "auto" ELSE @]
              ELSE /\ pc' = [pc EXCEPT ![t] = "idle"]
                   /\ loc' = [loc EXCEPT ![t] = Loc0]
                   /\ hist' = [hist EXCEPT !.res[t] =
                                IF r.thrown = "none" THEN "ok" ELSE r.thrown]
    /\ metrics_mutex' = NoThread
    /\ UNCHANGED <<manager, running, worker_thread, file_open, write_mutex, sink, clock,
                   registry, aborted, nrec, ncycle>>

(***************************************************************************)
(* MetricRegistry::registerMetric(name, metric).                           *)
(***************************************************************************)
\* metrics_.find(name) != metrics_.end()
hasMetric(reg, name) == name \in DOMAIN reg.metrics_

\* A std::unique_ptr<Metric> that holds nothing.
NullMetric == TypedMetric(<<>>, "int")

\* The names the registry holds a metric for.
Registered(reg) == {n \in DOMAIN reg.metrics_ : reg.metrics_[n] # NullMetric}

\* The find, and metrics_[name]: operator[] adds the name with an empty
\* pointer.
RegistryInsert(reg, name, metric) ==
    IF hasMetric(reg, name)
    THEN [thrown |-> "NameConflict", map |-> reg.metrics_]
    ELSE [thrown |-> "none",
          map |-> [n \in DOMAIN reg.metrics_ \cup {name} |->
                      IF n = name THEN metric ELSE reg.metrics_[n]]]

\* The metrics a caller may hand over: new, or with one sample recorded.
NewMetrics(name, kind) ==
    {TypedMetric(name, kind)}
       \cup {[TypedMetric(name, kind) EXCEPT !.accumulated_value_ = v, !.count_ = 1] :
                v \in Samples(kind)}

\* A caller calls registry.registerMetric(name, metric).
RegistryCall(t, names, kinds) ==
    /\ pc[t] = "idle"
    /\ \E name \in names, kind \in kinds :
          \E m \in NewMetrics(name, kind) :
             loc' = [loc EXCEPT ![t] =
                       [Loc0 EXCEPT !.name = name, !.kind = kind, !.arg = m]]
    /\ pc' = [pc EXCEPT ![t] = "x_valid"]
    /\ hist' = [hist EXCEPT !.res[t] = "none"]
    /\ UNCHANGED <<manager, running, metrics, metrics_mutex, worker_thread, file_open,
                   write_mutex, sink, clock, registry, aborted, nrec, ncycle>>

\* if (!MetricNameValidator::isValidName(name)) throw std::invalid_argument
RegistryValidate(t) ==
    /\ pc[t] = "x_valid"
    /\ IF isValidName(loc[t].name)
       THEN /\ pc' = [pc EXCEPT ![t] = "x_lock"]
            /\ UNCHANGED <<loc, hist>>
       ELSE /\ pc' = [pc EXCEPT ![t] = "idle"]
            /\ loc' = [loc EXCEPT ![t] = Loc0]
            /\ hist' = [hist EXCEPT !.res[t] = "InvalidName"]
    /\ UNCHANGED <<manager, running, metrics, metrics_mutex, worker_thread, file_open,
                   write_mutex, sink, clock, registry, aborted, nrec, ncycle>>

\* std::shared_mutex (the code needs C++17: MetricUtilities.h:11-16):
\* lock() waits for the owner and for the shared holders.
UniqueCanLock(reg) == reg.registry_mutex_ = NoThread /\ reg.readers = {}

\* A variant of lock_shared() that does not wait for the owner.
SharedCanLock_Always(reg) == TRUE

\* lock_shared() waits for the owner.
SharedCanLock(reg) == reg.registry_mutex_ = NoThread

\* UNIQUE_LOCK<SHARED_MUTEX> lock(registry_mutex_)
RegistryLock(t) ==
    /\ pc[t] = "x_lock" /\ UniqueCanLock(registry)
    /\ registry' = [registry EXCEPT !.registry_mutex_ = t]
    /\ pc' = [pc EXCEPT ![t] = "x_body"]
    /\ UNCHANGED <<manager, running, metrics, metrics_mutex, worker_thread, file_open,
                   write_mutex, sink, clock, loc, aborted, nrec, ncycle, hist>>

\* The find, then the throw and the unlock, or the name added to metrics_.
RegistryBody(t) ==
    /\ pc[t] = "x_body"
    /\ LET r == RegistryInsert(registry, loc[t].name, NullMetric)
       IN  IF r.thrown = "none"
           THEN /\ registry' = [registry EXCEPT !.metrics_ = r.map]
                /\ pc' = [pc EXCEPT ![t] = "x_assign"]
                /\ UNCHANGED <<loc, hist>>
           ELSE /\ registry' = [registry EXCEPT !.registry_mutex_ = NoThread]
                /\ hist' = [hist EXCEPT !.res[t] = r.thrown]
                /\ pc' = [pc EXCEPT ![t] = "idle"]
                /\ loc' = [loc EXCEPT ![t] = Loc0]
    /\ UNCHANGED <<manager, running, metrics, metrics_mutex, worker_thread, file_open,
                   write_mutex, sink, clock, aborted, nrec, ncycle>>

\* ... = std::move(metric): the metric is stored under the name; the unlock.
RegistryAssign(t) ==
    /\ pc[t] = "x_assign"
    /\ registry' = [registry EXCEPT !.metrics_[loc[t].name] = loc[t].arg,
                                    !.registry_mutex_ = NoThread]
    /\ hist' = [hist EXCEPT !.res[t] = "ok"]
    /\ pc' = [pc EXCEPT ![t] = "idle"]
    /\ loc' = [loc EXCEPT ![t] = Loc0]
    /\ UNCHANGED <<manager, running, metrics, metrics_mutex, worker_thread, file_open,
                   write_mutex, sink, clock, aborted, nrec, ncycle>>

(***************************************************************************)
(* The lookups of MetricRegistry, under SHARED_LOCK: getMetric, hasMetric, *)
(* getAllMetrics and size.  The result stays in the caller's locals: tmp   *)
(* (found, or the size), arg (the metric pointed to) and entries (the      *)
(* vector of pairs).                                                       *)
(***************************************************************************)
Lookups == {"getMetric", "hasMetric", "getAllMetrics", "size"}

\* A caller calls one of the lookups.
QueryCall(t, names) ==
    /\ pc[t] = "idle"
    /\ \E name \in names, op \in Lookups :
          loc' = [loc EXCEPT ![t] = [Loc0 EXCEPT !.name = name, !.ret = op]]
    /\ pc' = [pc EXCEPT ![t] = "q_lock"]
    /\ hist' = [hist EXCEPT !.res[t] = "none",
                            !.seen[t] = Registered(registry)]
    /\ UNCHANGED <<manager, running, metrics, metrics_mutex, worker_thread, file_open,
                   write_mutex, sink, clock, registry, aborted, nrec, ncycle>>

\* SHARED_LOCK<SHARED_MUTEX> lock(registry_mutex_)
QueryLock(t) ==
    /\ pc[t] = "q_lock" /\ SharedCanLock(registry)
    /\ registry' = [registry EXCEPT !.readers = @ \cup {t}]
    /\ pc' = [pc EXCEPT ![t] = IF loc[t].ret = "getAllMetrics" THEN "q_iter"
                                                               ELSE "q_body"]
    /\ UNCHANGED <<manager, running, metrics, metrics_mutex, worker_thread, file_open,
                   write_mutex, sink, clock, loc, aborted, nrec, ncycle, hist>>

\* A variant of getMetric that finds nothing.
getMetric_Miss(reg, name) == [found |-> FALSE, metric |-> NullMetric]

\* it = metrics_.find(name); it != end ? it->second.get() : nullptr
getMetric(reg, name) ==
    IF hasMetric(reg, name)
    THEN [found |-> reg.metrics_[name] # NullMetric, metric |-> reg.metrics_[name]]
    ELSE [found |-> FALSE, metric |-> NullMetric]

\* The body of getMetric, hasMetric or size, and the unlock.
QueryBody(t) ==
    /\ pc[t] = "q_body"
    /\ LET g == getMetric(registry, loc[t].name)
       IN  CASE loc[t].ret = "getMetric" ->
                  /\ loc' = [loc EXCEPT ![t].tmp = IF g.found THEN 1 ELSE 0,
                                        ![t].arg = g.metric]
                  /\ hist' = [hist EXCEPT !.res[t] = IF g.found THEN "found" ELSE "null"]
             [] loc[t].ret = "hasMetric" ->
                  /\ loc' = [loc EXCEPT ![t].tmp =
                                IF hasMetric(registry, loc[t].name) THEN 1 ELSE 0]
                  /\ hist' = [hist EXCEPT !.res[t] =
                                IF hasMetric(registry, loc[t].name) THEN "true"
                                                                     ELSE "false"]
             [] OTHER ->
                  /\ loc' = [loc EXCEPT ![t].tmp = Cardinality(DOMAIN registry.metrics_)]
                  /\ hist' = [hist EXCEPT !.res[t] = "size"]
    /\ registry' = [registry EXCEPT !.readers = @ \ {t}]
    /\ pc' = [pc EXCEPT ![t] = "idle"]
    /\ UNCHANGED <<manager, running, metrics, metrics_mutex, worker_thread, file_open,
                   write_mutex, sink, clock, aborted, nrec, ncycle>>

\* The names of the pairs of a vector.
PairNames(ps) == {ps[k].name : k \in 1 .. Len(ps)}

\* getAllMetrics: one turn of for (const auto& pair : metrics_), in the order
\* of the unordered_map, which is any order; or the return and the unlock.
\* tmp keeps metrics_.size() as it is at the return.
QueryIterate(t) ==
    /\ pc[t] = "q_iter"
    /\ LET left == DOMAIN registry.metrics_ \ PairNames(loc[t].entries)
       IN  IF left # {}
           THEN /\ \E n \in left :
                      loc' = [loc EXCEPT ![t].entries =
                                Append(@, [name |-> n, metric |-> registry.metrics_[n]])]
                /\ UNCHANGED <<registry, pc, hist>>
           ELSE /\ loc' = [loc EXCEPT ![t].tmp = Cardinality(DOMAIN registry.metrics_)]
                /\ registry' = [registry EXCEPT !.readers = @ \ {t}]
                /\ pc' = [pc EXCEPT ![t] = "idle"]
                /\ hist' = [hist EXCEPT !.res[t] = "all"]
    /\ UNCHANGED <<manager, running, metrics, metrics_mutex, worker_thread, file_open,
                   write_mutex, sink, clock, aborted, nrec, ncycle>>

Query(t) == QueryLock(t) \/ QueryBody(t) \/ QueryIterate(t)

(***************************************************************************)
(* MetricCollector::recordMetric<T>(name, value).                          *)
(***************************************************************************)
\* A producer calls recordMetric<kind>(name, v); the sample is numbered.
RecordCall(t, names, kinds) ==
    /\ pc[t] = "idle" /\ nrec < MaxRecords
    /\ nrec' = nrec + 1
    /\ \E name \in names, kind \in kinds :
          \E v \in Samples(kind) :
             loc' = [loc EXCEPT ![t] =
                       [Loc0 EXCEPT !.name = name, !.kind = kind,
                                    !.val = v, !.id = nrec + 1]]
    /\ pc' = [pc EXCEPT ![t] = "r_call"]
    /\ UNCHANGED <<manager, running, metrics, metrics_mutex, worker_thread, file_open,
                   write_mutex, sink, clock, registry, aborted, ncycle, hist>>

\* A producer calls recordMetric<kind>(name, 0) on a fractional kind: a CPU
\* that was idle (SpecificMetrics.h: "floating point numbers from 0 to N").
RecordCallZero(t, names, kinds) ==
    /\ pc[t] = "idle" /\ nrec < MaxRecords
    /\ nrec' = nrec + 1
    /\ \E name \in names, kind \in kinds \cap FractionalKinds :
          loc' = [loc EXCEPT ![t] =
                    [Loc0 EXCEPT !.name = name, !.kind = kind,
                                 !.val = 0, !.id = nrec + 1]]
    /\ pc' = [pc EXCEPT ![t] = "r_call"]
    /\ UNCHANGED <<manager, running, metrics, metrics_mutex, worker_thread, file_open,
                   write_mutex, sink, clock, registry, aborted, ncycle, hist>>

\* if (!running_) return;  (r: the value read from running_)
\* (a variant without the early return)
recordReturnsEarly_Never(r) == FALSE

recordReturnsEarly(r) == ~ r

\* recordMetric: the test of running_.
RecTest(t) ==
    /\ pc[t] = "r_call"
    /\ IF recordReturnsEarly(running)
       THEN /\ pc' = [pc EXCEPT ![t] = "idle"]
            /\ loc' = [loc EXCEPT ![t] = Loc0]
       ELSE /\ pc' = [pc EXCEPT ![t] = "r_lock1"]
            /\ UNCHANGED loc
    /\ UNCHANGED <<manager, running, metrics, metrics_mutex, worker_thread, file_open,
                   write_mutex, sink, clock, registry, aborted, nrec, ncycle, hist>>

\* The first lookup: std::lock_guard<std::mutex> lock(metrics_mutex_).
RecLock1(t) ==
    /\ pc[t] = "r_lock1" /\ MetricsMutexFree
    /\ metrics_mutex' = t
    /\ pc' = [pc EXCEPT ![t] = "r_find1"]
    /\ UNCHANGED <<manager, running, metrics, worker_thread, file_open, write_mutex, sink,
                   clock, registry, loc, aborted, nrec, ncycle, hist>>

\* A variant in which the cast succeeds for every kind.
AfterFound_NoCast(t, k) ==
    /\ pc' = [pc EXCEPT ![t] = "r_mlock"]
    /\ loc' = [loc EXCEPT ![t].target = k]

\* After a lookup that found metrics_[k]: dynamic_cast<TypedMetric<T>*>, which
\* gives null for a metric of another kind, and then nothing is recorded.
AfterFound(t, k) ==
    IF metrics[k].kind = loc[t].kind
    THEN /\ pc' = [pc EXCEPT ![t] = "r_mlock"]
         /\ loc' = [loc EXCEPT ![t].target = k]
    ELSE /\ pc' = [pc EXCEPT ![t] = "idle"]
         /\ loc' = [loc EXCEPT ![t] = Loc0]

\* The first lookup: find_if and the unlock.  A name not found is registered by
\* registerMetric<T>(name).
RecFind1(t) ==
    /\ pc[t] = "r_find1"
    /\ metrics_mutex' = LookupRelease(t)
    /\ LET k == FindMetric(metrics, loc[t].name)
       IN  IF k = 0
           THEN /\ pc' = [pc EXCEPT ![t] = "g_lock"]
                /\ loc' = [loc EXCEPT ![t].auto = TRUE]
           ELSE AfterFound(t, k)
    /\ UNCHANGED <<manager, running, metrics, worker_thread, file_open, write_mutex, sink,
                   clock, registry, aborted, nrec, ncycle, hist>>

\* The lookup after the registration: std::lock_guard<std::mutex> lock(metrics_mutex_).
RecLock2(t) ==
    /\ pc[t] = "r_lock2" /\ MetricsMutexFree
    /\ metrics_mutex' = t
    /\ pc' = [pc EXCEPT ![t] = "r_find2"]
    /\ UNCHANGED <<manager, running, metrics, worker_thread, file_open, write_mutex, sink,
                   clock, registry, loc, aborted, nrec, ncycle, hist>>

\* The lookup after the registration: find_if and the unlock.
RecFind2(t) ==
    /\ pc[t] = "r_find2"
    /\ metrics_mutex' = LookupRelease(t)
    /\ LET k == FindMetric(metrics, loc[t].name)
       IN  IF k = 0
           THEN /\ pc' = [pc EXCEPT ![t] = "idle"]
                /\ loc' = [loc EXCEPT ![t] = Loc0]
           ELSE AfterFound(t, k)
    /\ UNCHANGED <<manager, running, metrics, worker_thread, file_open, write_mutex, sink,
                   clock, registry, aborted, nrec, ncycle, hist>>

\* TypedMetric<T>::recordValue(T): the lock, and the loads of
\* accumulated_value_ += value and count_++.
RecMLock(t) ==
    /\ pc[t] = "r_mlock"
    /\ LET k == loc[t].target
       IN  /\ RecordValueCanLock(metrics[k])
           /\ metrics' = [metrics EXCEPT ![k].mutex_ = t]
           /\ loc' = [loc EXCEPT ![t].tmp = metrics[k].accumulated_value_,
                                 ![t].tmpc = metrics[k].count_]
    /\ pc' = [pc EXCEPT ![t] = "r_add"]
    /\ UNCHANGED <<manager, running, metrics_mutex, worker_thread, file_open, write_mutex,
                   sink, clock, registry, aborted, nrec, ncycle, hist>>

\* What a build may do when accumulated_value_ += value overflows.
OverflowOutcomes == {"wrap", "trap"}

\* The values stored by accumulated_value_ += value and count_++.
AddSample(m, tmp, tmpc, v) ==
    [m EXCEPT !.accumulated_value_ =
                 IF Overflows(m.kind, tmp, v) THEN Wrap(tmp, v) ELSE tmp + v,
              !.count_ = tmpc + 1]

\* The history of a sample that metric m accumulated.
NoteSample(m, id, v) ==
    [m EXCEPT !.ids = @ \cup {id},
              !.g_cnt = @ + 1,
              !.g_sum = IF m.g_ovf \/ @ > IntMax - v THEN @ ELSE @ + v,
              !.g_ovf = m.g_ovf \/ m.g_sum > IntMax - v]

\* TypedMetric<T>::recordValue(T): the stores and the unlock; recordMetric returns.
RecAdd(t) ==
    /\ pc[t] = "r_add"
    /\ LET k == loc[t].target
           m == metrics[k]
       IN  \E outcome \in OverflowOutcomes :
              IF Overflows(m.kind, loc[t].tmp, loc[t].val) /\ outcome = "trap"
              THEN /\ aborted' = TRUE
                   /\ pc' = Terminated
                   /\ UNCHANGED <<metrics, loc, hist>>
              ELSE /\ metrics' = [metrics EXCEPT ![k] =
                          [NoteSample(AddSample(m, loc[t].tmp, loc[t].tmpc,
                                                loc[t].val),
                                      loc[t].id, loc[t].val)
                             EXCEPT !.mutex_ = NoThread]]
                   /\ pc' = [pc EXCEPT ![t] = "idle"]
                   /\ loc' = [loc EXCEPT ![t] = Loc0]
                   /\ hist' = [hist EXCEPT !.added = @ \cup {loc[t].id},
                                           !.quiet = @ /\ ~ SomeCycle]
                   /\ UNCHANGED aborted
    /\ UNCHANGED <<manager, running, metrics_mutex, worker_thread, file_open, write_mutex,
                   sink, clock, registry, nrec, ncycle>>

(***************************************************************************)
(* MetricWriter::writeMetrics, under write_mutex_ and with the file open.  *)
(***************************************************************************)
\* One entry's line: the timestamp, the quoted name and the text of the value.
\* The other fields are history: the value before it was rendered, the count_
\* and the samples of the metric at its snapshot, and whether the samples are
\* exactly those recorded since a flush cycle that no record and no other
\* flush overlapped (exact), with their exact sum and number.
LineOf(e, exact) ==
    [ts |-> e.ts, name |-> formatNameForOutput(e.name), text |-> toString(e.value),
     kind |-> e.value.kind, value |-> getValue(e.value), n |-> e.n, ids |-> e.ids,
     exact |-> exact, g_sum |-> e.g_sum, g_cnt |-> e.g_cnt, g_ovf |-> e.g_ovf]

\* The lines appended for a batch: formatNameForOutput throws for an invalid
\* name, and that entry is skipped.
\* A variant that writes the line of every entry.
writeEntry_NoSkip(e, exact) == <<LineOf(e, exact)>>

\* The body of the loop over the entries: the line of one entry, or nothing
\* when formatNameForOutput throws.
writeEntry(e, exact) ==
    IF isValidName(e.name) THEN <<LineOf(e, exact)>> ELSE <<>>

RECURSIVE writeMetrics(_, _)
writeMetrics(entries, exact) ==
    IF entries = <<>> THEN <<>>
    ELSE writeEntry(Head(entries), exact) \o writeMetrics(Tail(entries), exact)

\* A variant of the lock that never waits.
WriteMutexFree_NoLock == TRUE

\* std::lock_guard<std::mutex> lock(write_mutex_) can be taken.
WriteMutexFree == write_mutex = NoThread

\* A caller calls close() on the writer: the lock.
CloseCall(t) ==
    /\ pc[t] = "idle" /\ WriteMutexFree
    /\ write_mutex' = t
    /\ pc' = [pc EXCEPT ![t] = "k_body"]
    /\ UNCHANGED <<manager, running, metrics, metrics_mutex, worker_thread, file_open, sink,
                   clock, registry, loc, aborted, nrec, ncycle, hist>>

\* A variant of close() that opens a closed stream.
closeStream_Toggle(open) == ~ open

\* if (file_stream_.is_open()) { file_stream_.close(); }: is_open() afterwards.
closeStream(open) == IF open THEN FALSE ELSE open

\* close(): the test, the close and the unlock.
CloseBody(t) ==
    /\ pc[t] = "k_body"
    /\ file_open' = closeStream(file_open)
    /\ write_mutex' = NoThread
    /\ pc' = [pc EXCEPT ![t] = "idle"]
    /\ hist' = [hist EXCEPT !.res[t] = IF file_open THEN "closed" ELSE "close_noop"]
    /\ UNCHANGED <<manager, running, metrics, metrics_mutex, worker_thread, sink, clock,
                   registry, loc, aborted, nrec, ncycle>>

(***************************************************************************)
(* MetricCollector::collectCurrentMetrics.                                 *)
(***************************************************************************)
OtherCycle(t) == \E u \in Threads \ {t} : InCycle(u)

\* History: a flush cycle ended; the samples recorded from now on are those
\* of the next cycle.
ZeroG(ms) ==
    [k \in 1 .. Len(ms) |->
        [ms[k] EXCEPT !.g_sum = 0, !.g_cnt = 0, !.g_ovf = FALSE]]

\* The first step of a cycle: auto timestamp = TimestampUtils::getCurrentTime().
\* ret names the caller to return to, h is the history so far.
BeginCollect(t, ret, h) ==
    /\ pc' = [pc EXCEPT ![t] = "c_lock"]
    /\ loc' = [loc EXCEPT ![t] = [Loc0 EXCEPT !.ts = clock, !.ret = ret,
                                               !.pre = loc[t].pre]]
    /\ clock' = clock + 1
    /\ hist' = [h EXCEPT !.quiet = ~ SomeCycle]

\* collectCurrentMetrics returns to its caller: processMetrics sleeps and tests
\* running_ again, flush() and stop() return (stop() to a destructor when one
\* called it).
EndCollect(t, reset) ==
    /\ pc' = [pc EXCEPT ![t] = IF loc[t].ret = "worker" THEN "w_loop"
                               ELSE IF loc[t].ret = "dtor" THEN "d_next" ELSE "idle"]
    /\ loc' = [loc EXCEPT ![t] = [Loc0 EXCEPT !.dtor = loc[t].dtor]]
    /\ hist' = [hist EXCEPT !.clean = hist.quiet /\ reset /\ ~ OtherCycle(t),
                            !.stopDone = @ \/ loc[t].ret = "stop",
                            !.failed = @ \/ ~ reset]

\* std::lock_guard<std::mutex> lock(metrics_mutex_) of the snapshot loop.
CLock(t) ==
    /\ pc[t] = "c_lock" /\ MetricsMutexFree
    /\ metrics_mutex' = t
    /\ pc' = [pc EXCEPT ![t] = "c_snap"]
    /\ loc' = [loc EXCEPT ![t].i = 1]
    /\ UNCHANGED <<manager, running, metrics, worker_thread, file_open, write_mutex, sink,
                   clock, registry, aborted, nrec, ncycle, hist>>

\* The snapshot loop: the next metric's getAccumulatedValue() takes its mutex_;
\* after the last metric metrics_mutex_ is released, and a cycle with no entry
\* returns.
CSnap(t) ==
    /\ pc[t] = "c_snap"
    /\ IF loc[t].i <= Len(metrics)
       THEN /\ MetricCanLock(metrics[loc[t].i])
            /\ metrics' = [metrics EXCEPT ![loc[t].i].mutex_ = t]
            /\ pc' = [pc EXCEPT ![t] = "c_read"]
            /\ UNCHANGED <<metrics_mutex, loc, hist>>
       ELSE /\ metrics_mutex' = SnapshotRelease(t)
            /\ IF loc[t].entries = <<>>
               THEN /\ EndCollect(t, TRUE)
                    /\ metrics' = ZeroG(metrics)
               ELSE /\ pc' = [pc EXCEPT ![t] = "c_wlock"]
                    /\ UNCHANGED <<metrics, loc, hist>>
    /\ UNCHANGED <<manager, running, worker_thread, file_open, write_mutex, sink, clock,
                   registry, aborted, nrec, ncycle>>

\* if (accumulated_value): the test of a pointer that getAccumulatedValue never
\* leaves null.
HasData(m, v) == TRUE

\* The entry made of a metric's snapshot.
EntryOf(ts, m) ==
    [ts |-> ts, name |-> m.name, value |-> getAccumulatedValue(m),
     n |-> m.count_, ids |-> m.ids,
     g_sum |-> m.g_sum, g_cnt |-> m.g_cnt, g_ovf |-> m.g_ovf]

\* The snapshot loop: the value read under mutex_, the unlock, the emplace_back.
CRead(t) ==
    /\ pc[t] = "c_read"
    /\ LET m == metrics[loc[t].i]
       IN  /\ loc' = [loc EXCEPT ![t].i = @ + 1,
                                 ![t].entries =
                                    IF HasData(m, getAccumulatedValue(m))
                                    THEN Append(@, EntryOf(loc[t].ts, m))
                                    ELSE @]
           /\ metrics' = [metrics EXCEPT ![loc[t].i].mutex_ = NoThread]
    /\ pc' = [pc EXCEPT ![t] = "c_snap"]
    /\ UNCHANGED <<manager, running, metrics_mutex, worker_thread, file_open, write_mutex,
                   sink, clock, registry, aborted, nrec, ncycle,
                   hist>>

\* writeMetrics: std::lock_guard<std::mutex> lock(write_mutex_).
CWLock(t) ==
    /\ pc[t] = "c_wlock" /\ WriteMutexFree
    /\ write_mutex' = t
    /\ pc' = [pc EXCEPT ![t] = "c_write"]
    /\ loc' = [loc EXCEPT ![t].i = 1]
    /\ UNCHANGED <<manager, running, metrics, metrics_mutex, worker_thread, file_open, sink,
                   clock, registry, aborted, nrec, ncycle,
                   hist>>

\* A variant of the catch block that resets the metrics as a written cycle does.
catchWriteError_Reset(ms) == [k \in 1 .. Len(ms) |-> ResetMetric(ms[k])]

\* catch (const std::exception& e) around writeMetrics and the reset loop: the
\* message is printed, and metrics_ is left as it is.
catchWriteError(ms) == ms

\* writeMetrics under write_mutex_: a closed file throws, which
\* collectCurrentMetrics catches, and the cycle returns without a reset; else
\* the loop appends the next entry's line, and after the last entry the file is
\* flushed, the lock released and the reset loop is next.
CWrite(t) ==
    /\ pc[t] = "c_write"
    /\ IF ~ file_open
       THEN /\ write_mutex' = NoThread
            /\ EndCollect(t, FALSE)
            /\ metrics' = ZeroG(catchWriteError(metrics))
            /\ UNCHANGED sink
       ELSE IF loc[t].i <= Len(loc[t].entries)
            THEN /\ sink' = sink \o writeEntry(loc[t].entries[loc[t].i],
                                               hist.clean /\ hist.quiet)
                 /\ loc' = [loc EXCEPT ![t].i = @ + 1]
                 /\ UNCHANGED <<write_mutex, pc, metrics, hist>>
            ELSE /\ write_mutex' = NoThread
                 /\ pc' = [pc EXCEPT ![t] = "c_rlock"]
                 /\ UNCHANGED <<sink, metrics, loc, hist>>
    /\ UNCHANGED <<manager, running, metrics_mutex, worker_thread, file_open, clock, registry,
                   aborted, nrec, ncycle>>

\* std::lock_guard<std::mutex> lock(metrics_mutex_) of the reset loop.
CRLock(t) ==
    /\ pc[t] = "c_rlock" /\ MetricsMutexFree
    /\ metrics_mutex' = t
    /\ pc' = [pc EXCEPT ![t] = "c_reset"]
    /\ loc' = [loc EXCEPT ![t].i = 1]
    /\ UNCHANGED <<manager, running, metrics, worker_thread, file_open, write_mutex, sink,
                   clock, registry, aborted, nrec, ncycle, hist>>

\* The reset loop: the next metric's reset() takes its mutex_; after the last
\* metric metrics_mutex_ is released and the cycle returns.
CReset(t) ==
    /\ pc[t] = "c_reset"
    /\ IF loc[t].i <= Len(metrics)
       THEN /\ MetricCanLock(metrics[loc[t].i])
            /\ metrics' = [metrics EXCEPT ![loc[t].i].mutex_ = t]
            /\ pc' = [pc EXCEPT ![t] = "c_zero"]
            /\ UNCHANGED <<metrics_mutex, loc, hist>>
       ELSE /\ metrics_mutex' = NoThread
            /\ EndCollect(t, TRUE)
            /\ metrics' = ZeroG(metrics)
    /\ UNCHANGED <<manager, running, worker_thread, file_open, write_mutex, sink, clock,
                   registry, aborted, nrec, ncycle>>

\* The reset loop: reset() zeroes the accumulator and unlocks.
CZero(t) ==
    /\ pc[t] = "c_zero"
    /\ metrics' = [metrics EXCEPT ![loc[t].i] =
                      [ResetMetric(metrics[loc[t].i]) EXCEPT !.mutex_ = NoThread]]
    /\ loc' = [loc EXCEPT ![t].i = @ + 1]
    /\ pc' = [pc EXCEPT ![t] = "c_reset"]
    /\ UNCHANGED <<manager, running, metrics_mutex, worker_thread, file_open, write_mutex,
                   sink, clock, registry, aborted, nrec, ncycle,
                   hist>>

(***************************************************************************)
(* MetricCollector::start, stop, flush and processMetrics.                 *)
(***************************************************************************)
\* The worker threads that were started and not joined.
LiveWorkers == {w \in Workers : pc[w] \notin {"unborn", "joined", "dead"}}

\* A caller calls start(); pool holds the threads the call may spawn.
StartCall(t, pool) ==
    /\ pc[t] = "idle"
    /\ \E w \in pool : pc[w] = "unborn"
    /\ pc' = [pc EXCEPT ![t] = "s_call"]
    /\ UNCHANGED <<manager, running, metrics, metrics_mutex, worker_thread, file_open,
                   write_mutex, sink, clock, registry, loc, aborted, nrec, ncycle,
                   hist>>

\* if (running_.exchange(true)) return;  (r: the value exchange returned)
\* (a variant without the early return)
startReturnsEarly_Never(r) == FALSE

startReturnsEarly(r) == r

\* start(): the exchange.
StartExchange(t) ==
    /\ pc[t] = "s_call"
    /\ running' = TRUE
    /\ IF startReturnsEarly(running)
       THEN /\ pc' = [pc EXCEPT ![t] = "idle"]
            /\ hist' = [hist EXCEPT !.res[t] = "start_noop"]
       ELSE /\ pc' = [pc EXCEPT ![t] = "s_spawn"]
            /\ hist' = [hist EXCEPT !.res[t] = "started",
                                    !.startPre = hist.added]
    /\ UNCHANGED <<manager, metrics, metrics_mutex, worker_thread, file_open, write_mutex,
                   sink, clock, registry, loc, aborted, nrec, ncycle>>

\* start(): worker_thread_ = std::thread(&MetricCollector::processMetrics, this).
\* Assigning to a joinable std::thread calls std::terminate.
StartSpawn(t) ==
    /\ pc[t] = "s_spawn"
    /\ IF worker_thread # 0 \/ \A w \in Workers : pc[w] # "unborn"
       THEN /\ aborted' = TRUE
            /\ pc' = Terminated
            /\ UNCHANGED worker_thread
       ELSE LET w == CHOOSE x \in Workers :
                        pc[x] = "unborn" /\ \A y \in Workers : pc[y] = "unborn" => x <= y
            IN  /\ pc' = [pc EXCEPT ![t] = "idle", ![w] = "w_loop"]
                /\ worker_thread' = w
                /\ UNCHANGED aborted
    /\ UNCHANGED <<manager, running, metrics, metrics_mutex, file_open, write_mutex, sink,
                   clock, registry, loc, nrec, ncycle, hist>>

\* A variant of the loop that never reads running_ as false.
loopContinues_Always(r) == TRUE

\* while (running_)  (r: the value read from running_)
loopContinues(r) == r

\* processMetrics: while (running_) { collectCurrentMetrics(); sleep }.
WorkerLoop(w) ==
    /\ pc[w] = "w_loop"
    /\ IF loopContinues(running)
       THEN /\ ncycle < MaxCycles
            /\ ncycle' = ncycle + 1
            /\ BeginCollect(w, "worker", hist)
       ELSE /\ pc' = [pc EXCEPT ![w] = "w_done"]
            /\ UNCHANGED <<loc, clock, ncycle, hist>>
    /\ UNCHANGED <<manager, running, metrics, metrics_mutex, worker_thread, file_open,
                   write_mutex, sink, registry, aborted, nrec>>

\* A caller calls stop(); a cycle is kept for its final flush.
StopCall(t) ==
    /\ pc[t] = "idle" /\ ncycle < MaxCycles
    /\ ncycle' = ncycle + 1
    /\ pc' = [pc EXCEPT ![t] = "t_call"]
    /\ hist' = [hist EXCEPT !.stopPre = hist.added, !.stopDone = FALSE]
    /\ UNCHANGED <<manager, running, metrics, metrics_mutex, worker_thread, file_open,
                   write_mutex, sink, clock, registry, loc, aborted, nrec>>

\* if (!running_.exchange(false)) return;  (r: the value exchange returned)
\* (a variant that always returns there)
stopReturnsEarly_Always(r) == TRUE

stopReturnsEarly(r) == ~ r

\* stop(): the exchange.
StopExchange(t) ==
    /\ pc[t] = "t_call"
    /\ running' = FALSE
    /\ IF stopReturnsEarly(running)
       THEN /\ pc' = [pc EXCEPT ![t] = IF loc[t].dtor > 0 THEN "d_next" ELSE "idle"]
            /\ hist' = [hist EXCEPT !.res[t] = "stop_noop"]
       ELSE /\ pc' = [pc EXCEPT ![t] = "t_join"]
            /\ hist' = [hist EXCEPT !.res[t] = "stopped"]
    /\ UNCHANGED <<manager, metrics, metrics_mutex, worker_thread, file_open, write_mutex,
                   sink, clock, registry, loc, aborted, nrec, ncycle>>

\* A variant of join() that returns at once.
joinReturns_NoWait(w) == TRUE

\* worker_thread_.join() returns when the thread has left processMetrics.
joinReturns(w) == pc[w] = "w_done"

\* stop(): if (worker_thread_.joinable()) worker_thread_.join(); and then the
\* first step of the final collectCurrentMetrics().
StopJoin(t) ==
    /\ pc[t] = "t_join"
    /\ IF worker_thread # 0
       THEN /\ joinReturns(worker_thread)
            /\ pc' = [pc EXCEPT ![t] = "c_lock",
                                ![worker_thread] =
                                   IF @ = "w_done" THEN "joined" ELSE @]
       ELSE pc' = [pc EXCEPT ![t] = "c_lock"]
    /\ worker_thread' = 0
    /\ loc' = [loc EXCEPT ![t] =
                 [Loc0 EXCEPT !.ts = clock, !.dtor = loc[t].dtor,
                              !.ret = IF loc[t].dtor > 0 THEN "dtor" ELSE "stop"]]
    /\ clock' = clock + 1
    /\ hist' = [hist EXCEPT !.quiet = ~ SomeCycle,
                            !.dtorPre = IF loc[t].dtor > 0
                                        THEN UNION {metrics[k].ids : k \in 1 .. Len(metrics)}
                                        ELSE @]
    /\ UNCHANGED <<manager, running, metrics, metrics_mutex, file_open, write_mutex, sink,
                   registry, aborted, nrec, ncycle>>

\* A caller calls flush().  (pre is history: the samples accumulated by the
\* recordMetric calls that have returned so far.)
FlushCall(t) ==
    /\ pc[t] = "idle" /\ ncycle < MaxCycles
    /\ ncycle' = ncycle + 1
    /\ pc' = [pc EXCEPT ![t] = "f_call"]
    /\ loc' = [loc EXCEPT ![t].pre = hist.added]
    /\ UNCHANGED <<manager, running, metrics, metrics_mutex, worker_thread, file_open,
                   write_mutex, sink, clock, registry, aborted, nrec, hist>>

\* if (!running_) return;  (r: the value read from running_)
\* (a variant without the early return)
flushReturnsEarly_Never(r) == FALSE

flushReturnsEarly(r) == ~ r

\* flush(): the test of running_, and the first step of collectCurrentMetrics().
FlushTest(t) ==
    /\ pc[t] = "f_call"
    /\ IF flushReturnsEarly(running)
       THEN /\ pc' = [pc EXCEPT ![t] = "idle"]
            /\ loc' = [loc EXCEPT ![t] = Loc0]
            /\ hist' = [hist EXCEPT !.res[t] = "flush_noop"]
            /\ UNCHANGED clock
       ELSE BeginCollect(t, "flush", hist)
    /\ UNCHANGED <<manager, running, metrics, metrics_mutex, worker_thread, file_open,
                   write_mutex, sink, registry, aborted, nrec, ncycle>>

(***************************************************************************)
(* Destruction: ~MetricCollector, reached directly or from the destructors *)
(* of MetricSystemManager and ScopedMetricSystem.                          *)
(***************************************************************************)
Owners == {"collector", "manager", "scoped"}

\* The calls of MetricCollector::stop() a destruction makes.  ~MetricCollector
\* calls stop().  ~ScopedMetricSystem calls manager_->stop() and then destroys
\* the manager; ~MetricSystemManager calls its stop(), which calls
\* collector_->stop() when is_running_ is set, and then destroys the
\* collector.  is_running_ is set by the manager's start() and cleared by its
\* stop(), around the collector's, so it equals running_ (r) whenever the
\* manager is the collector's only user.
StopCallsOf(owner, r) ==
    IF owner = "collector" THEN 1 ELSE IF r THEN 2 ELSE 1

\* A destruction is under way on thread t, or done.
Destroying(t) == loc[t].dtor > 0

\* The owner's thread destroys the collector.  No other caller is within a call,
\* and none calls from now on: a call on an object under destruction is
\* undefined.
DestroyCall(t, owners) ==
    /\ pc[t] = "idle"
    /\ \A u \in Callers \ {t} : pc[u] = "idle"
    /\ \E owner \in owners :
          loc' = [loc EXCEPT ![t] = [Loc0 EXCEPT !.dtor = StopCallsOf(owner, running)]]
    /\ pc' = [pc EXCEPT ![t] = "t_call"]
    /\ UNCHANGED <<manager, running, metrics, metrics_mutex, worker_thread, file_open,
                   write_mutex, sink, clock, registry, aborted, nrec, ncycle, hist>>

\* A stop() of the destruction has returned: the next one is called, or the
\* members of the collector are destroyed.
DestroyNext(t) ==
    /\ pc[t] = "d_next"
    /\ IF loc[t].dtor > 1
       THEN /\ pc' = [pc EXCEPT ![t] = "t_call"]
            /\ loc' = [loc EXCEPT ![t].dtor = @ - 1]
       ELSE /\ pc' = [pc EXCEPT ![t] = "d_close"]
            /\ UNCHANGED loc
    /\ UNCHANGED <<manager, running, metrics, metrics_mutex, worker_thread, file_open,
                   write_mutex, sink, clock, registry, aborted, nrec, ncycle, hist>>

\* The members are destroyed in the reverse order of their declaration:
\* writer_, whose destructor calls close(); worker_thread_, whose destructor
\* calls std::terminate for a joinable thread; and at last metrics_.
DestroyMembers(t) ==
    /\ pc[t] = "d_close" /\ WriteMutexFree
    /\ file_open' = FALSE
    /\ IF worker_thread # 0
       THEN /\ aborted' = TRUE
            /\ pc' = Terminated
            /\ UNCHANGED metrics
       ELSE /\ pc' = [pc EXCEPT ![t] = "destroyed"]
            /\ metrics' = <<>>
            /\ UNCHANGED aborted
    /\ UNCHANGED <<manager, running, metrics_mutex, worker_thread, write_mutex, sink, clock,
                   registry, loc, nrec, ncycle, hist>>

(***************************************************************************)
(* The collector under concurrent use: a producer records, the controlling *)
(* thread registers, starts, flushes and stops, the worker flushes.        *)
(***************************************************************************)
SpecNames == {NameCPU}
SpecKinds == {"int", "double"}

Collect(t) ==
    \/ CLock(t) \/ CSnap(t) \/ CRead(t) \/ CWLock(t) \/ CWrite(t)
    \/ CRLock(t) \/ CReset(t) \/ CZero(t)

Record(t) ==
    \/ RecTest(t) \/ RecLock1(t) \/ RecFind1(t) \/ RecLock2(t) \/ RecFind2(t)
    \/ RecMLock(t) \/ RecAdd(t)

Register(t) == RegLock(t) \/ RegBody(t)

Lifecycle(t) ==
    \/ StartExchange(t) \/ StartSpawn(t)
    \/ StopCall(t) \/ StopExchange(t) \/ StopJoin(t)
    \/ FlushCall(t) \/ FlushTest(t)

\* Metrics are registered before start() (MetricSystemManager.h), or by the
\* producer's first record.
RegisterIdle(t) == ~ running /\ RegisterCall(t, SpecNames, SpecKinds)

Next ==
    \/ RecordCall(1, SpecNames, SpecKinds) \/ Record(1) \/ Register(1)
    \/ RegisterIdle(Ctl) \/ Register(Ctl)
    \/ StartCall(Ctl, Workers) \/ Lifecycle(Ctl)
    \/ \E t \in Workers \cup {Ctl} : Collect(t)
    \/ \E w \in Workers : WorkerLoop(w)

Spec == Init /\ [][Next]_vars

Start(t) == StartExchange(t) \/ StartSpawn(t)

(***************************************************************************)
(* Two producers record while the collector runs: no stop(), no flush().   *)
(***************************************************************************)
SpecProducers ==
    Init /\ [][\/ RegisterIdle(Ctl) \/ Register(Ctl)
               \/ StartCall(Ctl, {11}) \/ Start(Ctl)
               \/ \E p \in Producers :
                     \/ RecordCall(p, SpecNames, SpecKinds) \/ Record(p) \/ Register(p)
               \/ Collect(11) \/ WorkerLoop(11)]_vars

(***************************************************************************)
(* Registration: the controlling thread registers with the collector and   *)
(* with the registry at any time, valid names and invalid ones, and starts *)
(* the collector; a producer records, which registers the names it does    *)
(* not find.  The flush thread sleeps throughout.                          *)
(***************************************************************************)
RegNames == {NameCPU, NameEmpty}
RegKinds == {"int", "double"}
RegistryNames == {NameCPU, NameQuote, NameCtrl}
RegistryKinds == {"int"}

Registry(t) ==
    RegistryValidate(t) \/ RegistryLock(t) \/ RegistryBody(t) \/ RegistryAssign(t)

SpecRegister ==
    Init /\ [][\/ RegisterCall(Ctl, RegNames, RegKinds) \/ Register(Ctl)
               \/ RegistryCall(Ctl, RegistryNames, RegistryKinds) \/ Registry(Ctl)
               \/ StartCall(Ctl, {11}) \/ Start(Ctl)
               \/ RecordCall(1, RegNames, RegKinds) \/ Record(1) \/ Register(1)]_vars

(***************************************************************************)
(* A closed writer: the controlling thread registers, starts the collector *)
(* and closes the writer at any time; a producer records and the worker    *)
(* flushes.  No stop(), no flush().                                        *)
(***************************************************************************)
Close(t) == CloseCall(t) \/ CloseBody(t)

SpecWriter ==
    Init /\ [][\/ RegisterIdle(Ctl) \/ Register(Ctl)
               \/ StartCall(Ctl, {11}) \/ Start(Ctl)
               \/ Close(Ctl)
               \/ RecordCall(1, SpecNames, SpecKinds) \/ Record(1) \/ Register(1)
               \/ Collect(11) \/ WorkerLoop(11)]_vars

(***************************************************************************)
(* Batches of several entries: the controlling thread registers up to      *)
(* three names, one of them invalid, before it starts the collector, and   *)
(* calls flush() while the worker flushes.                                 *)
(***************************************************************************)
BatchNames == {NameCPU, NameEmpty, NameHTTP}
BatchKinds == {"int"}

RegisterBatch(t) == ~ running /\ RegisterCall(t, BatchNames, BatchKinds)

Flush(t) == FlushCall(t) \/ FlushTest(t)

SpecBatch ==
    Init /\ [][\/ RegisterBatch(Ctl) \/ Register(Ctl)
               \/ StartCall(Ctl, {11}) \/ Start(Ctl)
               \/ Flush(Ctl)
               \/ Collect(Ctl) \/ Collect(11) \/ WorkerLoop(11)]_vars

(***************************************************************************)
(* Destruction: the controlling thread registers, starts the collector and *)
(* destroys it, or the manager or scoped system that owns it, while the    *)
(* worker flushes; a producer records until the destruction begins.        *)
(***************************************************************************)
RecordAlive(t) == ~ Destroying(Ctl) /\ RecordCall(t, SpecNames, SpecKinds)

Destroy(t) ==
    \/ StopExchange(t) \/ StopJoin(t) \/ DestroyNext(t) \/ DestroyMembers(t)

SpecDestroy ==
    Init /\ [][\/ RegisterIdle(Ctl) \/ Register(Ctl)
               \/ StartCall(Ctl, {11}) \/ Start(Ctl)
               \/ DestroyCall(Ctl, Owners) \/ Destroy(Ctl) \/ Collect(Ctl)
               \/ RecordAlive(1) \/ Record(1) \/ Register(1)
               \/ Collect(11) \/ WorkerLoop(11)]_vars

(***************************************************************************)
(* Stopping under fair scheduling: the controlling thread registers,       *)
(* starts the collector and stops it while a producer records and the      *)
(* worker flushes.  Every thread that can take a step of the call it   *)
(* is in takes it in the end; the calls themselves may never be made.      *)
(***************************************************************************)
NextStop ==
    \/ RegisterIdle(Ctl) \/ Register(Ctl)
    \/ StartCall(Ctl, {11}) \/ Start(Ctl)
    \/ StopCall(Ctl) \/ StopExchange(Ctl) \/ StopJoin(Ctl)
    \/ Collect(Ctl)
    \/ RecordCall(1, SpecNames, SpecKinds) \/ Record(1) \/ Register(1)
    \/ Collect(11) \/ WorkerLoop(11)

\* The steps within the calls of the controlling thread.
ControlStep(t) ==
    \/ Register(t) \/ Start(t) \/ StopExchange(t) \/ StopJoin(t) \/ Collect(t)

SpecStopFair ==
    /\ Init /\ [][NextStop]_vars
    /\ WF_vars(ControlStep(Ctl))
    /\ WF_vars(Record(1) \/ Register(1))
    /\ WF_vars(Collect(11) \/ WorkerLoop(11))

(***************************************************************************)
(* A late metric: the controlling thread registers one name and starts the *)
(* collector; a producer records ints under that name and under another,   *)
(* which its recordMetric registers while the worker flushes.              *)
(***************************************************************************)
LateNames == {NameCPU, NameHTTP}
LateKinds == {"int"}

\* The one name is registered before start().
RegisterFirst(t) == ~ running /\ RegisterCall(t, {NameCPU}, LateKinds)

SpecLate ==
    Init /\ [][\/ RegisterFirst(Ctl) \/ Register(Ctl)
               \/ StartCall(Ctl, {11}) \/ Start(Ctl)
               \/ RecordCall(1, LateNames, LateKinds) \/ Record(1) \/ Register(1)
               \/ Collect(11) \/ WorkerLoop(11)]_vars

(***************************************************************************)
(* Lookups: the controlling thread registers metrics with the registry     *)
(* while another thread looks names up, lists the metrics and asks for the *)
(* size.  NameCtrl is looked up and never registered.                      *)
(***************************************************************************)
LookupRegNames == {NameCPU, NameHTTP}
LookupNames == {NameCPU, NameCtrl}

SpecLookup ==
    Init /\ [][\/ RegistryCall(Ctl, LookupRegNames, RegistryKinds) \/ Registry(Ctl)
               \/ QueryCall(1, LookupNames) \/ Query(1)]_vars

(***************************************************************************)
(* Rendering: as SpecProducers with one producer, whose samples of a       *)
(* fractional kind may be zero.                                            *)
(***************************************************************************)
SpecRender ==
    Init /\ [][\/ RegisterIdle(Ctl) \/ Register(Ctl)
               \/ StartCall(Ctl, {11}) \/ Start(Ctl)
               \/ RecordCall(1, SpecNames, SpecKinds)
               \/ RecordCallZero(1, SpecNames, SpecKinds)
               \/ Record(1) \/ Register(1)
               \/ Collect(11) \/ WorkerLoop(11)]_vars

(***************************************************************************)
(* Values and one metric used directly: the controlling thread constructs  *)
(* TypedMetricValue objects of two kinds, adds samples to one, clones it,  *)
(* accumulates another into it, resets it, and hands values to the         *)
(* recordValue(std::unique_ptr<MetricValue>) of a metric of its own.       *)
(***************************************************************************)
ValueKinds == {"int", "double"}

\* The numbers given to a value, by kind (a double in hundredths).
ValueSamples(kind) == IF kind = "int" THEN {0, 1, IntMax} ELSE {0, 50}

\* TypedMetricValue<T> v(val), as the receiver or as the other value.
ValueNew(t) ==
    /\ pc[t] = "idle"
    /\ \E kind \in ValueKinds : \E val \in ValueSamples(kind) :
          \/ loc' = [loc EXCEPT ![t].recv = Tracked(TypedMetricValue(kind, RatInt(val)))]
          \/ loc' = [loc EXCEPT ![t].other = Tracked(TypedMetricValue(kind, RatInt(val)))]
    /\ hist' = [hist EXCEPT !.res[t] = "none"]
    /\ UNCHANGED <<manager, running, metrics, metrics_mutex, worker_thread, file_open,
                   write_mutex, sink, clock, registry, pc, aborted, nrec, ncycle>>

\* recv.addValue(val).
ValueAdd(t) ==
    /\ pc[t] = "idle"
    /\ loc[t].recv.obj.count_ < MaxAdds
    /\ LET tr == loc[t].recv
       IN  \E val \in ValueSamples(tr.obj.kind), outcome \in OverflowOutcomes :
              IF AddOverflows(tr.obj.kind, tr.obj.value_.num, val) /\ outcome = "trap"
              THEN /\ aborted' = TRUE
                   /\ pc' = Terminated
                   /\ UNCHANGED <<loc, hist>>
              ELSE /\ loc' = [loc EXCEPT ![t].recv =
                          [TrackAdd(tr, RatInt(val), 1, FALSE)
                             EXCEPT !.obj = addValue(tr.obj, val)]]
                   /\ hist' = [hist EXCEPT !.res[t] = "added"]
                   /\ UNCHANGED <<pc, aborted>>
    /\ UNCHANGED <<manager, running, metrics, metrics_mutex, worker_thread, file_open,
                   write_mutex, sink, clock, registry, nrec, ncycle>>

\* other = recv.clone(): value_ and count_ are copied.
ValueClone(t) ==
    /\ pc[t] = "idle"
    /\ loc[t].other # loc[t].recv
    /\ loc' = [loc EXCEPT ![t].other = loc[t].recv]
    /\ hist' = [hist EXCEPT !.res[t] = "none"]
    /\ UNCHANGED <<manager, running, metrics, metrics_mutex, worker_thread, file_open,
                   write_mutex, sink, clock, registry, pc, aborted, nrec, ncycle>>

\* recv.reset().
ValueReset(t) ==
    /\ pc[t] = "idle"
    /\ loc[t].recv.obj.count_ > 0
    /\ loc' = [loc EXCEPT ![t].recv = Tracked(ResetValue(loc[t].recv.obj))]
    /\ hist' = [hist EXCEPT !.res[t] = "none"]
    /\ UNCHANGED <<manager, running, metrics, metrics_mutex, worker_thread, file_open,
                   write_mutex, sink, clock, registry, pc, aborted, nrec, ncycle>>

\* The caller calls recv.accumulate(other).
ValueAccumulateCall(t) ==
    /\ pc[t] = "idle"
    /\ loc[t].recv.obj.count_ + loc[t].other.obj.count_ <= MaxAdds
    /\ pc' = [pc EXCEPT ![t] = "v_acc"]
    /\ hist' = [hist EXCEPT !.res[t] = "none"]
    /\ UNCHANGED <<manager, running, metrics, metrics_mutex, worker_thread, file_open,
                   write_mutex, sink, clock, registry, loc, aborted, nrec, ncycle>>

\* TypedMetricValue<T>::accumulate(other).
ValueAccumulate(t) ==
    /\ pc[t] = "v_acc"
    /\ LET tr == loc[t].recv
           o == loc[t].other
           r == accumulate(tr.obj, o.obj)
       IN  \E outcome \in OverflowOutcomes :
              IF /\ r.thrown = "none"
                 /\ AddOverflows(tr.obj.kind, tr.obj.value_.num, o.obj.value_.num)
                 /\ outcome = "trap"
              THEN /\ aborted' = TRUE
                   /\ pc' = Terminated
                   /\ UNCHANGED <<loc, hist>>
              ELSE /\ loc' = [loc EXCEPT ![t].recv =
                          IF r.thrown = "none"
                          THEN [TrackAdd(tr, o.sum, o.n, o.ovf) EXCEPT !.obj = r.v]
                          ELSE [tr EXCEPT !.obj = r.v]]
                   /\ pc' = [pc EXCEPT ![t] = "idle"]
                   /\ hist' = [hist EXCEPT !.res[t] =
                                  IF r.thrown = "none" THEN "accumulated" ELSE r.thrown]
                   /\ UNCHANGED aborted
    /\ UNCHANGED <<manager, running, metrics, metrics_mutex, worker_thread, file_open,
                   write_mutex, sink, clock, registry, nrec, ncycle>>

\* TypedMetric<T> metric(name), a metric of the caller's own.
MetricNew(t) ==
    /\ pc[t] = "idle"
    /\ \E kind \in ValueKinds :
          /\ loc[t].arg # TypedMetric(NameCPU, kind)
          /\ loc' = [loc EXCEPT ![t].arg = TypedMetric(NameCPU, kind)]
    /\ hist' = [hist EXCEPT !.res[t] = "none"]
    /\ UNCHANGED <<manager, running, metrics, metrics_mutex, worker_thread, file_open,
                   write_mutex, sink, clock, registry, pc, aborted, nrec, ncycle>>

\* dynamic_cast<TypedMetricValue<T>*>(value.get()) is not null.
castValue(m, v) == v.kind = m.kind

\* The caller calls metric.recordValue(std::move(other)); the mean of the
\* value handed over is a whole number (of hundredths for a double).
MetricRecordValueCall(t) ==
    /\ pc[t] = "idle"
    /\ loc[t].arg.name # <<>>
    /\ loc[t].arg.count_ < MaxAdds
    /\ getValue(loc[t].other.obj).den = 1
    /\ pc' = [pc EXCEPT ![t] = "m_rec"]
    /\ hist' = [hist EXCEPT !.res[t] = "none"]
    /\ UNCHANGED <<manager, running, metrics, metrics_mutex, worker_thread, file_open,
                   write_mutex, sink, clock, registry, loc, aborted, nrec, ncycle>>

\* TypedMetric<T>::recordValue(std::unique_ptr<MetricValue>): the cast, then
\* under mutex_ accumulated_value_ += typed_value->getValue() and count_++.
\* The value handed over is destroyed with the parameter.
MetricRecordValue(t) ==
    /\ pc[t] = "m_rec"
    /\ LET m == loc[t].arg
           v == loc[t].other.obj
           x == getValue(v).num
       IN  IF ~ castValue(m, v)
           THEN /\ loc' = [loc EXCEPT ![t].other = Loc0.other]
                /\ pc' = [pc EXCEPT ![t] = "idle"]
                /\ hist' = [hist EXCEPT !.res[t] = "TypeMismatch"]
                /\ UNCHANGED aborted
           ELSE /\ MetricCanLock(m)
                /\ \E outcome \in OverflowOutcomes :
                      IF AddOverflows(m.kind, m.accumulated_value_, x) /\ outcome = "trap"
                      THEN /\ aborted' = TRUE
                           /\ pc' = Terminated
                           /\ UNCHANGED <<loc, hist>>
                      ELSE /\ loc' = [loc EXCEPT
                                  ![t].arg = [m EXCEPT
                                     !.accumulated_value_ =
                                        SumOf(m.kind, RatInt(@), RatInt(x)).num,
                                     !.count_ = @ + 1],
                                  ![t].other = Loc0.other]
                           /\ pc' = [pc EXCEPT ![t] = "idle"]
                           /\ hist' = [hist EXCEPT !.res[t] = "recorded"]
                           /\ UNCHANGED aborted
    /\ UNCHANGED <<manager, running, metrics, metrics_mutex, worker_thread, file_open,
                   write_mutex, sink, clock, registry, nrec, ncycle>>

SpecValue ==
    Init /\ [][\/ ValueNew(Ctl) \/ ValueAdd(Ctl) \/ ValueClone(Ctl) \/ ValueReset(Ctl)
               \/ ValueAccumulateCall(Ctl) \/ ValueAccumulate(Ctl)
               \/ MetricNew(Ctl)
               \/ MetricRecordValueCall(Ctl) \/ MetricRecordValue(Ctl)]_vars

(***************************************************************************)
(* Properties.                                                             *)
(***************************************************************************)
\* The samples some line of the sink reports.
SinkIds == UNION {sink[k].ids : k \in 1 .. Len(sink)}

\* The samples the accumulators hold.
AccIds == UNION {metrics[k].ids : k \in 1 .. Len(metrics)}

\* The number a line's text reads as.
TextNumber(text) == text.digits

\* C1: no accumulated sample is lost to a flush cycle: it is in a written
\* line, or it is still in its metric's accumulator.
C1_NoSampleLost ==
    \A id \in hist.added : id \in SinkIds \/ id \in AccIds

\* C2: a line of an integral metric, written for the samples
\* recorded between two flush cycles that nothing overlapped, holds their
\* exact sum.
C2_FlushedSumExact ==
    \A k \in 1 .. Len(sink) :
       (sink[k].kind \in IntegralKinds /\ sink[k].exact)
          => (~ sink[k].g_ovf /\ TextNumber(sink[k].text) = sink[k].g_sum)

\* C3: a line of a fractional metric, written for the samples recorded between
\* two flush cycles that nothing overlapped, holds their arithmetic mean
\* (rendered with two decimals), and once such a cycle has ended the
\* accumulators hold nothing but the samples recorded since.
C3_FlushedMeanAndEmptied ==
    /\ \A k \in 1 .. Len(sink) :
          (sink[k].kind \in FractionalKinds /\ sink[k].exact /\ sink[k].g_cnt > 0)
             => /\ sink[k].value = Rat(sink[k].g_sum, sink[k].g_cnt)
                /\ TextNumber(sink[k].text)
                      = Fixed2(Rat(sink[k].g_sum, sink[k].g_cnt))
    /\ (hist.clean /\ ~ SomeCycle)
          => \A k \in 1 .. Len(metrics) :
                (metrics[k].kind \in FractionalKinds /\ metrics[k].g_cnt = 0)
                   => (metrics[k].accumulated_value_ = 0 /\ metrics[k].count_ = 0)

\* C3's case: the mean of two samples recorded between two cycles was written,
\* and the cycle that wrote it has ended.
C3_Witness ==
    /\ hist.clean /\ ~ SomeCycle
    /\ \E k \in 1 .. Len(sink) :
          /\ sink[k].kind \in FractionalKinds /\ sink[k].exact
          /\ sink[k].g_cnt = 2 /\ sink[k].ts > 1
          /\ sink[k].ts = clock - 1
    /\ \A k \in 1 .. Len(metrics) : metrics[k].g_cnt = 0

\* C4: a metric with no sample at its snapshot gives no entry, so no line.
C4_NoEntryWithoutSamples ==
    /\ \A t \in Threads :
          \A k \in 1 .. Len(loc[t].entries) : loc[t].entries[k].n > 0
    /\ \A k \in 1 .. Len(sink) : sink[k].n > 0

\* C5: when stop() has returned, every sample accumulated before stop() was
\* called is in the sink.
C5_StopWritesEverySample ==
    hist.stopDone => hist.stopPre \subseteq SinkIds

\* C6: when the producers have returned and no flush cycle has begun, every
\* metric's count_ is the number of samples recorded on it and its
\* accumulated_value_ is their sum.
C6_NoLostUpdate ==
    (clock = 1 /\ \A p \in Producers : pc[p] = "idle")
       => \A k \in 1 .. Len(metrics) :
             /\ metrics[k].count_ = metrics[k].g_cnt
             /\ ~ metrics[k].g_ovf
             /\ metrics[k].accumulated_value_ = metrics[k].g_sum

\* The step in which thread t leaves label l, the process living on.
Leaves(t, l) == pc[t] = l /\ pc'[t] # l /\ ~ aborted'

\* C7: a registration of a registered name, with the collector or with the
\* registry, throws the name conflict and leaves the registered metrics as
\* they are: their number, and each one's kind, total and count.
C7_DuplicateRejected ==
    [][\A t \in Callers :
          /\ (Leaves(t, "g_body") /\ FindMetric(metrics, loc[t].name) # 0)
                => /\ metrics' = metrics
                   /\ ~ loc[t].auto => hist'.res[t] = "NameConflict"
          /\ (Leaves(t, "x_body") /\ hasMetric(registry, loc[t].name))
                => /\ registry'.metrics_ = registry.metrics_
                   /\ hist'.res[t] = "NameConflict"]_vars

\* C7's case: a registration has thrown the name conflict, and the collector
\* and the registry both hold a metric with samples.
C7_Witness ==
    /\ pc[Ctl] = "idle" /\ hist.res[Ctl] = "NameConflict"
    /\ \E k \in 1 .. Len(metrics) : metrics[k].count_ > 0
    /\ \E n \in DOMAIN registry.metrics_ : registry.metrics_[n].count_ > 0

\* C8: no registered metric has an invalid name, in the collector or in the
\* registry.
C8_NoInvalidName ==
    /\ \A k \in 1 .. Len(metrics) : isValidName(metrics[k].name)
    /\ \A n \in DOMAIN registry.metrics_ : isValidName(n)

\* What start(), stop() and recordMetric() leave alone when they return at
\* their test of running_.
NothingDone(t) ==
    /\ pc' = [pc EXCEPT ![t] = "idle"]
    /\ UNCHANGED <<manager, running, metrics, metrics_mutex, worker_thread, file_open,
                   write_mutex, sink, clock, registry, aborted>>

\* C9: there is never more than one flush thread; start() on a running
\* collector and stop() on an idle one return with no error and change
\* nothing: no thread is spawned, no flush cycle begins, nothing is written.
C9_IdempotentStartStop ==
    /\ [](Cardinality(LiveWorkers) <= 1)
    /\ [][\A t \in Callers :
             /\ (Leaves(t, "s_call") /\ running)
                   => (NothingDone(t) /\ hist'.res[t] = "start_noop")
             /\ (Leaves(t, "t_call") /\ ~ running)
                   => (NothingDone(t) /\ hist'.res[t] = "stop_noop")]_vars

\* C9's case: start() has returned on a running collector, whose flush thread
\* lives.
C9_Witness ==
    /\ pc[Ctl] = "idle" /\ hist.res[Ctl] = "start_noop"
    /\ running /\ Cardinality(LiveWorkers) = 1

\* C10: recordMetric on an idle collector returns at its test of running_:
\* no metric is registered, no accumulator changes, nothing is written.
C10_RecordWhileIdle ==
    [][\A t \in Producers :
          (Leaves(t, "r_call") /\ ~ running)
             => (NothingDone(t) /\ hist' = hist)]_vars

\* C10's case: recordMetric calls have returned on a collector that was never
\* started.
C10_Witness ==
    /\ nrec = MaxRecords /\ pc[1] = "idle"
    /\ ~ running /\ \A w \in Workers : pc[w] = "unborn"
    /\ metrics = <<>> /\ sink = <<>>

\* C11: a recordMetric that registers its name makes a metric of the kind of its
\* value and accumulates the value in it; a recordMetric whose value is of
\* another kind than the metric found returns and leaves the metrics, the
\* sink and the history of accumulated samples as they are.
C11_AutoRegisterThenKindMismatch ==
    /\ [](\A t \in Producers :
            /\ pc[t] \in {"r_lock2", "r_find2"}
                  => /\ FindMetric(metrics, loc[t].name) # 0
                     /\ metrics[FindMetric(metrics, loc[t].name)].kind = loc[t].kind
            /\ pc[t] \in {"r_mlock", "r_add"}
                  => /\ metrics[loc[t].target].name = loc[t].name
                     /\ metrics[loc[t].target].kind = loc[t].kind)
    /\ [][\A t \in Producers :
             /\ (Leaves(t, "g_body") /\ loc[t].auto
                    /\ FindMetric(metrics, loc[t].name) = 0)
                   => /\ metrics' = Append(metrics, TypedMetric(loc[t].name, loc[t].kind))
                      /\ pc'[t] = "r_lock2"
             /\ Leaves(t, "r_add")
                   => /\ loc[t].id \in metrics'[loc[t].target].ids
                      /\ metrics'[loc[t].target].count_
                            = metrics[loc[t].target].count_ + 1
             /\ ((Leaves(t, "r_find1") \/ Leaves(t, "r_find2"))
                    /\ FindMetric(metrics, loc[t].name) # 0
                    /\ metrics[FindMetric(metrics, loc[t].name)].kind # loc[t].kind)
                   => /\ pc'[t] = "idle"
                      /\ UNCHANGED <<metrics, sink, hist, running>>]_vars

\* C11's case: the producer's first recordMetric registered the name and
\* accumulated its value, its second one, of another kind, was dropped.
C11_Witness ==
    /\ running /\ pc[1] = "idle" /\ hist.res[1] = "auto"
    /\ nrec = 2 /\ hist.added = {1} /\ clock = 1
    /\ Len(metrics) = 1 /\ metrics[1].ids = {1} /\ metrics[1].count_ = 1

(***************************************************************************)
(* C12: a flush cycle whose writeMetrics throws (the file is closed) resets *)
(* no metric: the step in which the exception is caught leaves every       *)
(* metric's accumulated_value_, count_ and samples as they are, appends     *)
(* nothing and returns from the cycle without entering the reset loop; and  *)
(* as long as no line was written, every sample recorded is still in its    *)
(* metric, whose count_ is the number of its samples.                       *)
(***************************************************************************)
C12_FailedWriteResetsNothing ==
    /\ [](sink = <<>> =>
            /\ hist.added = AccIds
            /\ \A k \in 1 .. Len(metrics) :
                  metrics[k].count_ = Cardinality(metrics[k].ids))
    /\ [][\A t \in Threads :
            Leaves(t, "c_write") /\ ~ file_open =>
               /\ pc'[t] \in {"w_loop", "idle"}
               /\ sink' = sink
               /\ Len(metrics') = Len(metrics)
               /\ \A k \in 1 .. Len(metrics) :
                     /\ metrics'[k].accumulated_value_ = metrics[k].accumulated_value_
                     /\ metrics'[k].count_ = metrics[k].count_
                     /\ metrics'[k].ids = metrics[k].ids]_vars

\* The writer was closed before any line was written, a cycle failed and
\* returned, and the two samples recorded are still in the metric.
C12_Witness ==
    /\ ~ file_open /\ sink = <<>> /\ hist.failed
    /\ pc[11] = "w_loop" /\ ncycle = 2
    /\ Len(metrics) = 1 /\ metrics[1].ids = {1, 2} /\ metrics[1].count_ = 2
LinesOf(ts) == SelectSeq(sink, LAMBDA l : l.ts = ts)

\* The entries of a batch whose name formatNameForOutput accepts, in batch order.
ValidEntries(entries) == SelectSeq(entries, LAMBDA e : isValidName(e.name))

(***************************************************************************)
(* C14: in writeMetrics an entry whose name formatNameForOutput rejects    *)
(* appends nothing, and every other entry is appended in batch order: when *)
(* the loop has passed the first i - 1 entries, the lines the call has     *)
(* appended are the last lines of the sink and are, in order, the lines of *)
(* the valid entries among these; and with the file open the call returns  *)
(* after the last entry without an exception, so the cycle goes on to its  *)
(* reset.                                                                  *)
(***************************************************************************)
C14_BadEntrySkipped ==
    /\ [](\A t \in Threads :
            pc[t] \in {"c_write", "c_rlock"} =>
               LET done == IF pc[t] = "c_write"
                           THEN SubSeq(loc[t].entries, 1, loc[t].i - 1)
                           ELSE loc[t].entries
                   valid == ValidEntries(done)
                   n == Len(valid)
                   mine == LinesOf(loc[t].ts)
               IN  /\ Len(mine) = n
                   /\ \A j \in 1 .. n :
                         /\ mine[j].name = formatNameForOutput(valid[j].name)
                         /\ mine[j].text = toString(valid[j].value)
                   /\ pc[t] = "c_write" =>
                         /\ Len(sink) >= n
                         /\ SubSeq(sink, Len(sink) - n + 1, Len(sink)) = mine)
    /\ [][\A t \in Threads :
            Leaves(t, "c_write") /\ file_open =>
               /\ pc'[t] = "c_rlock"
               /\ loc[t].i = Len(loc[t].entries) + 1]_vars

\* The worker has written a batch of three entries, the second with the empty
\* name: the sink ends with the lines of the first and the third.
C14_Witness ==
    /\ pc[11] = "c_rlock"
    /\ Len(loc[11].entries) = 3
    /\ loc[11].entries[1].name = NameCPU
    /\ loc[11].entries[2].name = NameEmpty
    /\ loc[11].entries[3].name = NameHTTP
    /\ Len(sink) >= 2
    /\ sink[Len(sink) - 1].name = formatNameForOutput(NameCPU)
    /\ sink[Len(sink)].name = formatNameForOutput(NameHTTP)
    /\ sink[Len(sink)].ts = loc[11].ts
(***************************************************************************)
(* C15: the entries of one flush cycle carry the timestamp the cycle read  *)
(* at its start, and they are written by the cycle's one call of           *)
(* writeMetrics: before the call's lock is taken the sink holds no line of *)
(* the cycle, a line is appended only by the thread that holds             *)
(* write_mutex_ within that call, and the lines of one cycle are           *)
(* contiguous in the sink, also when flush() runs a cycle while the worker *)
(* runs one.  (Every reading of the clock is later than the one before, so *)
(* a timestamp names its cycle.)                                           *)
(***************************************************************************)
C15_CycleLinesContiguous ==
    /\ [](/\ \A t \in Threads :
               InCycle(t) =>
                  /\ \A j \in 1 .. Len(loc[t].entries) :
                        loc[t].entries[j].ts = loc[t].ts
                  /\ pc[t] \in {"c_lock", "c_snap", "c_read", "c_wlock"} =>
                        LinesOf(loc[t].ts) = <<>>
           /\ \A a, b, c \in 1 .. Len(sink) :
                 a < b /\ b < c /\ sink[a].ts = sink[c].ts => sink[b].ts = sink[a].ts)
    /\ [][sink' # sink =>
            \E t \in Threads :
               /\ pc[t] = "c_write" /\ pc'[t] = "c_write" /\ write_mutex = t
               /\ Len(sink') = Len(sink) + 1
               /\ SubSeq(sink', 1, Len(sink)) = sink
               /\ sink'[Len(sink')].ts = loc[t].ts]_vars

\* flush() and the worker ran their cycles at the same time, each with two
\* valid entries: the cycle that read the clock first wrote second.
C15_Witness ==
    /\ Len(sink) = 4
    /\ sink[1].ts = 2 /\ sink[2].ts = 2
    /\ sink[3].ts = 1 /\ sink[4].ts = 1
(***************************************************************************)
(* C16: background flush cycles never overlap: while a worker is within a  *)
(* cycle no other worker is alive, and when a worker begins a cycle no     *)
(* worker is within one and the cycle it ran before has returned, its      *)
(* write and its reset loop behind it.                                     *)
(***************************************************************************)
C16_BackgroundCyclesSequential ==
    /\ [](\A w \in Workers :
            InCycle(w) => \A u \in Workers \ {w} : pc[u] \in {"unborn", "joined"})
    /\ [][\A w \in Workers :
            pc[w] = "w_loop" /\ pc'[w] = "c_lock" =>
               \A u \in Workers : ~ InCycle(u) /\ loc[u] = Loc0]_vars

\* The worker is in the snapshot loop of its second cycle; the first cycle
\* wrote its line and reset the metric, which holds the sample recorded since.
C16_Witness ==
    /\ pc[11] = "c_snap" /\ loc[11].ts = 2 /\ ncycle = 2
    /\ Len(sink) = 1 /\ sink[1].ts = 1 /\ sink[1].ids = {1}
    /\ Len(metrics) = 1 /\ metrics[1].ids = {2} /\ metrics[1].count_ = 1
\* The metrics whose mutex_ thread t holds.
MetricLocksOf(t) == {k \in 1 .. Len(metrics) : metrics[k].mutex_ = t}

(***************************************************************************)
(* C17: a flush cycle calls writeMetrics holding neither metrics_mutex_    *)
(* nor the mutex_ of any metric: a thread that waits for write_mutex_ or   *)
(* is within writeMetrics, however long, holds no lock that recordMetric   *)
(* takes.                                                                  *)
(***************************************************************************)
C17_WriterCalledWithoutLocks ==
    \A t \in Threads :
       pc[t] \in {"c_wlock", "c_write"} =>
          /\ metrics_mutex # t
          /\ MetricLocksOf(t) = {}

\* The worker is within writeMetrics while the producer, which was called after
\* the snapshot, holds the metric's mutex_ and is about to store its sample.
C17_Witness ==
    /\ pc[11] = "c_write" /\ write_mutex = 11
    /\ Len(loc[11].entries) = 1 /\ loc[11].entries[1].ids = {1}
    /\ pc[1] = "r_add" /\ loc[1].id = 2 /\ metrics[loc[1].target].mutex_ = 1
(***************************************************************************)
(* C18: a thread within a flush cycle never holds metrics_mutex_ and the   *)
(* mutex_ of a metric at the same time, and holds the mutex_ of a metric   *)
(* only while it reads or resets that metric.                              *)
(***************************************************************************)
C18_FlusherNeverHoldsBoth ==
    \A t \in Threads :
       InCycle(t) =>
          /\ ~ (metrics_mutex = t /\ MetricLocksOf(t) # {})
          /\ MetricLocksOf(t) # {} =>
                pc[t] \in {"c_read", "c_zero"} /\ MetricLocksOf(t) = {loc[t].i}
(***************************************************************************)
(* C19: a producer within recordMetric holds metrics_mutex_ only during a  *)
(* lookup or within registerMetric, and has released it before it takes    *)
(* the mutex_ of the metric found: it never holds both, and the only       *)
(* mutex_ it ever holds is that of the metric with the name it was given,  *)
(* while recordValue stores the sample.  (The threads of a terminated      *)
(* process hold nothing.)                                                  *)
(***************************************************************************)
C19_ProducerLockDiscipline ==
    \A p \in Producers :
       pc[p] # "dead" =>
          /\ metrics_mutex = p => pc[p] \in {"r_find1", "r_find2", "g_body"}
          /\ ~ (metrics_mutex = p /\ MetricLocksOf(p) # {})
          /\ MetricLocksOf(p) # {} =>
                /\ pc[p] = "r_add"
                /\ MetricLocksOf(p) = {loc[p].target}
                /\ metrics[loc[p].target].name = loc[p].name

\* Two metrics are registered; the producer holds the mutex_ of the second,
\* the one it named, while the controlling thread holds metrics_mutex_.
C19_Witness ==
    /\ Len(metrics) = 2 /\ pc[1] = "r_add"
    /\ loc[1].name = metrics[2].name /\ metrics[1].name # loc[1].name
    /\ metrics[2].mutex_ = 1 /\ metrics[1].mutex_ = NoThread
    /\ metrics_mutex = Ctl
(***************************************************************************)
(* C20: the collector can be restarted.  Once the second start() has       *)
(* created its worker, the first worker is joined and the second is the    *)
(* only one alive; running_ is true from the exchange of a start() until a *)
(* stop(); no step removes or changes a registered metric's name or kind;  *)
(* and every sample accumulated since the second start() is in a line of   *)
(* the sink or still in its metric for a later flush.  (Stated for a       *)
(* process that has not been terminated.)                                  *)
(***************************************************************************)
C20_RestartWorks ==
    /\ [](~ aborted =>
            /\ hist.res[Ctl] = "started" => running
            /\ pc[12] # "unborn" =>
                  /\ pc[11] = "joined"
                  /\ LiveWorkers \subseteq {12}
                  /\ running => LiveWorkers = {12}
                  /\ hist.added \ hist.startPre \subseteq SinkIds \cup AccIds)
    /\ [][/\ Len(metrics') >= Len(metrics)
          /\ \A k \in 1 .. Len(metrics) :
                metrics'[k].name = metrics[k].name /\ metrics'[k].kind = metrics[k].kind]_vars
(***************************************************************************)
(* C21: destroying a collector stops it first.  Once the destruction's     *)
(* calls of stop() have returned, running_ is false, the worker is joined  *)
(* and every sample the accumulators held after the join is in the sink;   *)
(* the final flush runs with running_ false and no worker alive; a second  *)
(* stop() of the destruction returns at its exchange and changes nothing;  *)
(* and the writer's file is closed only when the members are destroyed,    *)
(* after all that.                                                         *)
(***************************************************************************)
C21_DestructionStopsFirst ==
    /\ [](\A t \in Callers :
            Destroying(t) /\ ~ aborted =>
               /\ pc[t] \in {"d_close", "destroyed"} =>
                     /\ ~ running
                     /\ LiveWorkers = {} /\ worker_thread = 0
                     /\ hist.dtorPre \subseteq SinkIds
               /\ InCycle(t) => ~ running /\ LiveWorkers = {}
               /\ pc[t] # "destroyed" => file_open)
    /\ [][\A t \in Callers :
            Leaves(t, "t_call") /\ Destroying(t) /\ ~ running =>
               /\ pc'[t] = "d_next"
               /\ UNCHANGED <<metrics, sink, clock, worker_thread, file_open>>]_vars

\* A manager that owned a running collector was destroyed: the sample that was
\* in the accumulator is in the last line of the sink, the worker is joined
\* and the file is closed.
C21_Witness ==
    /\ pc[Ctl] = "destroyed" /\ hist.res[Ctl] = "stop_noop"
    /\ ~ running /\ pc[11] = "joined" /\ ~ file_open
    /\ hist.dtorPre = {2} /\ hist.added = {1, 2}
    /\ Len(sink) = 2 /\ sink[2].ids = {2}
(***************************************************************************)
(* C22: flush() on a running collector runs a whole flush cycle on the     *)
(* caller's thread: when it returns, the file being open, every sample     *)
(* whose recordMetric had returned when flush() was called is in the sink; *)
(* and no step of flush() changes running_ or worker_thread_ or moves a    *)
(* worker.                                                                 *)
(***************************************************************************)
C22_FlushWritesCompletedSamples ==
    [][\A t \in Callers :
          /\ (InCycle(t) /\ loc[t].ret = "flush" /\ pc'[t] = "idle" /\ file_open)
                => loc[t].pre \subseteq UNION {sink'[k].ids : k \in 1 .. Len(sink')}
          /\ ((pc[t] = "f_call" \/ (InCycle(t) /\ loc[t].ret = "flush"))
                /\ pc'[t] # pc[t] /\ ~ aborted')
                => /\ UNCHANGED <<running, worker_thread>>
                   /\ \A w \in Workers : pc'[w] = pc[w]]_vars
(***************************************************************************)
(* C23: close() is idempotent.  Every close() returns to its caller; once  *)
(* the file is closed it stays closed; and a close() that finds the file   *)
(* closed changes nothing of the writer, the sink or the collector.        *)
(***************************************************************************)
C23_CloseIdempotent ==
    /\ [][~ file_open => ~ file_open']_vars
    /\ [][\A t \in Callers :
            Leaves(t, "k_body") =>
               /\ pc'[t] = "idle"
               /\ ~ file_open' /\ write_mutex' = NoThread
               /\ UNCHANGED <<sink, metrics, running, worker_thread, metrics_mutex>>]_vars

\* A second close() has returned: the file is closed, and the worker, which
\* wrote a line before the first close(), is still in its loop.
C23_Witness ==
    /\ pc[Ctl] = "idle" /\ hist.res[Ctl] = "close_noop"
    /\ ~ file_open /\ write_mutex = NoThread
    /\ running /\ pc[11] = "w_loop" /\ Len(sink) = 1

\* C24: accumulate(other) with a value of another kind throws the type
\* mismatch and leaves value_ and count_ of the receiver as they are; with a
\* value of the same kind it adds other's count_ to count_ and other's value_
\* to value_ (the sum itself wherever the kind can hold it; past the range of
\* an int the += is the undefined addition).  recordValue given a value of
\* another kind throws the type mismatch and leaves accumulated_value_ and
\* count_ of the metric as they are.
C24_TypeMismatchLeavesUnchanged ==
    [][/\ Leaves(Ctl, "v_acc") =>
             LET v == loc[Ctl].recv.obj
                 o == loc[Ctl].other.obj
                 w == loc'[Ctl].recv.obj
             IN  IF o.kind # v.kind
                 THEN /\ hist'.res[Ctl] = "TypeMismatch"
                      /\ w.value_ = v.value_ /\ w.count_ = v.count_ /\ w.kind = v.kind
                 ELSE /\ hist'.res[Ctl] = "accumulated"
                      /\ w.count_ = v.count_ + o.count_
                      /\ w.kind = v.kind
                      /\ ~ AddOverflows(v.kind, v.value_.num, o.value_.num) =>
                            w.value_.num * v.value_.den * o.value_.den
                               = w.value_.den * (v.value_.num * o.value_.den
                                                 + o.value_.num * v.value_.den)
       /\ Leaves(Ctl, "m_rec") =>
             LET m == loc[Ctl].arg
                 o == loc[Ctl].other.obj
                 n == loc'[Ctl].arg
             IN  IF o.kind # m.kind
                 THEN /\ hist'.res[Ctl] = "TypeMismatch"
                      /\ n.accumulated_value_ = m.accumulated_value_
                      /\ n.count_ = m.count_ /\ n.kind = m.kind
                 ELSE hist'.res[Ctl] = "recorded" /\ n.count_ = m.count_ + 1]_vars

\* A double value holding one sample threw at an int value holding one.
C24_Witness ==
    /\ pc[Ctl] = "idle" /\ hist.res[Ctl] = "TypeMismatch"
    /\ loc[Ctl].recv.obj.kind = "double" /\ loc[Ctl].recv.obj.count_ = 1
    /\ loc[Ctl].recv.obj.value_ = RatInt(50)
    /\ loc[Ctl].other.obj.kind = "int" /\ loc[Ctl].other.obj.count_ = 1

\* The text "0".
BareZero == [form |-> "decimal", digits |-> 0]

\* C25: every line written for a metric of a fractional kind that held at
\* least one sample has its value in fixed 2-decimal form, whatever the mean;
\* every line of an integral kind has it as a plain decimal integer; and a
\* bare "0" is written for a metric of a fractional kind only when it held no
\* sample.
C25_RenderedForm ==
    \A k \in 1 .. Len(sink) :
       /\ IsFractional(sink[k].kind) /\ sink[k].n > 0 => sink[k].text.form = "fixed2"
       /\ ~ IsFractional(sink[k].kind) => sink[k].text.form = "decimal"
       /\ IsFractional(sink[k].kind) /\ sink[k].text = BareZero => sink[k].n = 0

\* A line written for a fractional metric that held samples of a mean above
\* zero, in fixed 2-decimal form.
C25_Witness ==
    \E k \in 1 .. Len(sink) :
       /\ IsFractional(sink[k].kind) /\ sink[k].n = 2
       /\ sink[k].text = [form |-> "fixed2", digits |-> 25]

\* C26: a lookup by name never reads the registry in the middle of a
\* registration: what getMetric and hasMetric return is the state before the
\* registration or the state after it.  A name whose registration had
\* returned when the lookup was called is found, and getMetric returns the
\* metric registered under it; a name found is registered when the lookup
\* returns; a name never registered is not found.
C26_LookupSeesBeforeOrAfter ==
    [][\A t \in Producers :
          (Leaves(t, "q_body") /\ loc[t].ret \in {"getMetric", "hasMetric"}) =>
             LET name == loc[t].name
                 found == loc'[t].tmp = 1
             IN  /\ Registered(registry) = DOMAIN registry.metrics_
                 /\ name \in hist.seen[t] => found
                 /\ found => name \in Registered(registry')
                 /\ name \notin DOMAIN registry'.metrics_ => ~ found
                 /\ loc[t].ret = "getMetric" =>
                       /\ found => loc'[t].arg = registry'.metrics_[name]
                       /\ hist'.res[t] = IF found THEN "found" ELSE "null"
                 /\ loc[t].ret = "hasMetric" =>
                       hist'.res[t] = IF found THEN "true" ELSE "false"]_vars

\* getMetric, called before the registration of the name had returned, has
\* returned the metric registered, a metric with a sample.
C26_Witness ==
    /\ pc[1] = "idle" /\ hist.res[1] = "found"
    /\ loc[1].name = NameCPU /\ NameCPU \notin hist.seen[1]
    /\ loc[1].arg = registry.metrics_[NameCPU] /\ loc[1].arg.count_ = 1
    /\ pc[Ctl] = "x_assign"

\* The pairs of a vector, as a set.
PairSet(ps) == {ps[k] : k \in 1 .. Len(ps)}

\* C27: the vector getAllMetrics returns is the content of the registry at
\* one instant, its return: a pair for each name registered, with the metric
\* registered under it, each name once, and as many pairs as size() counts
\* at that instant; size() returns the number of the names registered.
C27_SnapshotAtOneInstant ==
    [][\A t \in Producers :
          /\ Leaves(t, "q_iter") =>
                LET ps == loc'[t].entries
                IN  /\ PairSet(ps) = {[name |-> n, metric |-> registry.metrics_[n]] :
                                         n \in Registered(registry)}
                    /\ PairNames(ps) = DOMAIN registry.metrics_
                    /\ Cardinality(PairNames(ps)) = Len(ps)
                    /\ Len(ps) = loc'[t].tmp
                    /\ hist.seen[t] \subseteq PairNames(ps)
          /\ (Leaves(t, "q_body") /\ loc[t].ret = "size") =>
                /\ loc'[t].tmp = Cardinality(Registered(registry))
                /\ loc'[t].tmp >= Cardinality(hist.seen[t])]_vars

\* getAllMetrics has returned two pairs, one of them registered after it was
\* called.
C27_Witness ==
    /\ pc[1] = "idle" /\ hist.res[1] = "all"
    /\ Len(loc[1].entries) = 2 /\ Cardinality(hist.seen[1]) = 1
    /\ PairNames(loc[1].entries) = {NameCPU, NameHTTP}

\* C28: a stop() that finds the collector running returns, unless the
\* process is terminated first: the worker reads the cleared running_, leaves
\* its loop and is joined.  The final flush of stop() runs after the join, no
\* worker alive; and once stop() has returned, until the next start(), no
\* worker is alive and no flush cycle begins.
C28_StopTerminates ==
    /\ (pc[Ctl] = "t_call" /\ running)
          ~> (aborted \/ (pc[Ctl] = "idle" /\ hist.stopDone /\ ~ running))
    /\ [](~ aborted =>
            /\ \A t \in Callers :
                  (InCycle(t) /\ loc[t].ret = "stop") =>
                     LiveWorkers = {} /\ worker_thread = 0
            /\ (hist.stopDone /\ ~ running) =>
                  /\ LiveWorkers = {} /\ worker_thread = 0
                  /\ \A w \in Workers : pc[w] # "unborn" => pc[w] = "joined")
    /\ [][(hist.stopDone /\ ~ running /\ ~ aborted') =>
             \A t \in Threads : ~ InCycle(t)']_vars

\* stop() has returned after the worker ran a cycle of its own and was
\* joined, and the final flush wrote a sample recorded after that cycle.
C28_Witness ==
    /\ pc[Ctl] = "idle" /\ hist.stopDone /\ ~ running /\ ~ aborted
    /\ pc[11] = "joined" /\ worker_thread = 0
    /\ Len(sink) = 2 /\ sink[1].ids = {1} /\ sink[2].ids = {2}
    /\ sink[2].ts > sink[1].ts

\* The mean of the samples of a tracked value.
MeanOf(tr) == Rat(tr.sum.num, tr.sum.den * tr.n)

\* C29, for a fractional kind: a value given samples since it was made or
\* reset reduces to their arithmetic mean, which toString writes in fixed
\* 2-decimal form.
FractionalReducesToMean ==
    LET tr == loc[Ctl].recv
    IN  (~ aborted /\ IsFractional(tr.obj.kind) /\ tr.n > 0) =>
           /\ getValue(tr.obj) = MeanOf(tr)
           /\ TextNumber(toString(tr.obj)) = Fixed2(MeanOf(tr))

\* C29, for an integral kind: a value given samples since it was made or
\* reset, whose exact sum an int holds, reduces to that sum, and toString
\* writes the sum.
IntegralReducesToSum ==
    LET tr == loc[Ctl].recv
    IN  (~ aborted /\ ~ IsFractional(tr.obj.kind) /\ tr.n > 0 /\ ~ tr.ovf) =>
           /\ getValue(tr.obj) = tr.sum
           /\ TextNumber(toString(tr.obj)) = tr.sum.num

\* C29: the reduced value of a TypedMetricValue, by getValue and in the text
\* of toString, is the exact sum of the samples added and accumulated since
\* its last reset for an integral kind, and their arithmetic mean for a
\* fractional kind.
C29_ValueReduction == IntegralReducesToSum /\ FractionalReducesToMean

\* An int value was given two samples by addValue.
C29_Witness ==
    /\ pc[Ctl] = "idle" /\ hist.res[Ctl] = "added"
    /\ loc[Ctl].recv.obj.kind = "int" /\ loc[Ctl].recv.n = 2
    /\ loc[Ctl].recv.sum = RatInt(2) /\ loc[Ctl].recv.obj.value_ = RatInt(2)
    /\ getValue(loc[Ctl].recv.obj) = RatInt(1)

\* The kind registered under a name in a vector of metrics.
KindOf(ms, name) == ms[FindMetric(ms, name)].kind

\* C30: a registered name stays registered, with its metric in its place and
\* of the kind of its first registration, whatever is recorded, flushed,
\* stopped or started again: every step keeps each registered name and its
\* kind and only adds names; no name is registered twice; and every line in
\* the sink was written for a registered name, in the kind registered.
C30_RegistrationIsPermanent ==
    /\ [][/\ Len(metrics') >= Len(metrics)
          /\ \A k \in 1 .. Len(metrics) :
                /\ FindMetric(metrics', metrics[k].name) = k
                /\ KindOf(metrics', metrics[k].name) = metrics[k].kind]_vars
    /\ [](\A j, k \in 1 .. Len(metrics) : metrics[j].name = metrics[k].name => j = k)
    /\ [](\A i \in 1 .. Len(sink) :
            \E k \in 1 .. Len(metrics) :
               /\ sink[i].name = formatNameForOutput(metrics[k].name)
               /\ sink[i].kind = metrics[k].kind)

\* The collector was stopped and started again: the metric registered as a
\* double before the first start() has a line written before the restart and
\* holds a sample recorded after it.
C30_Witness ==
    /\ running /\ pc[12] = "w_loop" /\ pc[11] = "joined"
    /\ Len(metrics) = 1 /\ metrics[1].kind = "double" /\ metrics[1].ids = {2}
    /\ Len(sink) = 1 /\ sink[1].kind = "double" /\ sink[1].ids = {1}
    /\ pc[1] = "idle"

\* C31: when producers record values of one kind under a name not yet
\* registered, one metric is made for the name, and the call of a producer
\* that finds the name registered by another, in the kind of its value, when
\* its own registration runs goes on to accumulate its sample: it does not
\* return there.
C31_NoSampleLostToAutoRegistration ==
    /\ [](\A j, k \in 1 .. Len(metrics) : metrics[j].name = metrics[k].name => j = k)
    /\ [][\A t \in Producers :
             (/\ Leaves(t, "g_body") /\ loc[t].auto
              /\ FindMetric(metrics, loc[t].name) # 0
              /\ KindOf(metrics, loc[t].name) = loc[t].kind)
                => pc'[t] = "r_lock2"]_vars

\* Two producers, each with a value of the same kind for the same name, have
\* both found the name missing and wait to register it.
C31_Witness ==
    /\ running /\ metrics = <<>>
    /\ pc[1] = "g_lock" /\ pc[2] = "g_lock" /\ loc[1].auto /\ loc[2].auto
    /\ loc[1].name = loc[2].name /\ loc[1].kind = loc[2].kind

\* C32: no sample is written twice: no two lines of the sink have a sample in
\* common, whether a manual flush(), a background cycle or the final flush
\* of stop() wrote them.
C32_NoSampleWrittenTwice ==
    \A i, j \in 1 .. Len(sink) : i # j => sink[i].ids \cap sink[j].ids = {}

\* Two lines written by different cycles, each with a sample of its own.
C32_Witness ==
    /\ Len(sink) = 2 /\ sink[1].ids = {1} /\ sink[2].ids = {2}
    /\ sink[1].ts # sink[2].ts

\* The names a cycle took a snapshot of.
SnapshotNames(t) == {loc[t].entries[k].name : k \in 1 .. Len(loc[t].entries)}

\* C33: the reset loop of a flush cycle clears what the cycle took a snapshot
\* of and nothing else: the reset of a metric that was registered after the
\* snapshot leaves its accumulated_value_, its count_ and its samples as they
\* are.
C33_ResetOnlyWhatWasSnapshotted ==
    [][\A t \in Threads :
          (Leaves(t, "c_zero") /\ metrics[loc[t].i].name \notin SnapshotNames(t))
             => /\ metrics'[loc[t].i].ids = metrics[loc[t].i].ids
                /\ metrics'[loc[t].i].count_ = metrics[loc[t].i].count_
                /\ metrics'[loc[t].i].accumulated_value_
                      = metrics[loc[t].i].accumulated_value_]_vars

\* The worker is in its reset loop, at a metric that was registered after its
\* snapshot and holds a sample.
C33_Witness ==
    /\ pc[11] = "c_zero" /\ loc[11].i = 2 /\ Len(loc[11].entries) = 1
    /\ Len(metrics) = 2 /\ metrics[2].name = NameHTTP /\ metrics[2].ids # {}

\* The names of a vector of metrics.
NamesOf(ms) == {ms[k].name : k \in 1 .. Len(ms)}

\* C34: the names of metrics_ are pairwise distinct in every state, whether
\* registerMetric was called by a caller or by a recordMetric that did not
\* find its name: there are as many names as metrics, and a step that adds a
\* metric adds one, under a name that no metric had.
C34_NamesPairwiseDistinct ==
    /\ [](Cardinality(NamesOf(metrics)) = Len(metrics))
    /\ [][Len(metrics') > Len(metrics) =>
             /\ Len(metrics') = Len(metrics) + 1
             /\ metrics'[Len(metrics')].name \notin NamesOf(metrics)]_vars

\* Two names are registered; a caller's registerMetric was refused for a
\* name already there, and a producer's recordMetric registered its name.
C34_Witness ==
    /\ Len(metrics) = 2 /\ pc[Ctl] = "idle" /\ pc[1] = "idle"
    /\ hist.res[Ctl] = "NameConflict" /\ hist.res[1] = "auto"

(***************************************************************************)
(* The locks under fair scheduling: the controlling thread registers       *)
(* before it starts the collector, and stops it; one producer records      *)
(* once, which registers the name it does not find; another calls flush(); *)
(* the worker flushes.  The writer always returns.  A thread that can      *)
(* again and again take a step of the call it is in takes it in the end (a *)
(* mutex that is free again and again is given to the thread that waits    *)
(* for it); the calls themselves may never be made.                        *)
(***************************************************************************)
LockKinds == {"int"}

\* The producer records one sample.
RecordOne(t) == nrec = 0 /\ RecordCall(t, SpecNames, LockKinds)

NextLocks ==
    \/ RegisterFirst(Ctl) \/ Register(Ctl)
    \/ StartCall(Ctl, {11}) \/ Start(Ctl)
    \/ StopCall(Ctl) \/ StopExchange(Ctl) \/ StopJoin(Ctl)
    \/ Collect(Ctl)
    \/ RecordOne(1) \/ Record(1) \/ Register(1)
    \/ Flush(2) \/ Collect(2)
    \/ Collect(11) \/ WorkerLoop(11)

SpecLocksFair ==
    /\ Init /\ [][NextLocks]_vars
    /\ SF_vars(ControlStep(Ctl))
    /\ SF_vars(Record(1) \/ Register(1))
    /\ SF_vars(FlushTest(2) \/ Collect(2))
    /\ SF_vars(Collect(11) \/ WorkerLoop(11))

\* The places where a thread waits for a lock: metrics_mutex_ in
\* registerMetric, in the lookups of recordMetric and before the two loops of
\* collectCurrentMetrics; a metric's mutex_ in recordValue and within the
\* two loops; the writer's write_mutex_.
LockWaits ==
    {"g_lock", "r_lock1", "r_lock2", "r_mlock",
     "c_lock", "c_snap", "c_wlock", "c_rlock", "c_reset"}

\* The thread that holds the lock that t waits for, or NoThread.
HolderFor(t) ==
    CASE pc[t] \in {"g_lock", "r_lock1", "r_lock2", "c_lock", "c_rlock"} ->
            metrics_mutex
      [] pc[t] = "r_mlock" -> metrics[loc[t].target].mutex_
      [] pc[t] \in {"c_snap", "c_reset"} ->
            IF loc[t].i <= Len(metrics) THEN metrics[loc[t].i].mutex_
            ELSE NoThread
      [] pc[t] = "c_wlock" -> write_mutex
      [] OTHER -> NoThread

\* t waits for a lock that a thread holds.
Blocked(t) == pc[t] \in LockWaits /\ HolderFor(t) # NoThread

Stop(t) == StopCall(t) \/ StopExchange(t) \/ StopJoin(t)

SpecStartStop ==
    Init /\ [][\/ RegisterIdle(Ctl) \/ Register(Ctl)
               \/ StartCall(Ctl, Workers) \/ Start(Ctl)
               \/ Stop(1) \/ Collect(1)
               \/ \E w \in Workers : Collect(w) \/ WorkerLoop(w)]_vars

\* No call on the collector is in progress.
NoCallInProgress == \A t \in Callers : pc[t] = "idle"

(***************************************************************************)
(* C36: whenever running_ is false and no call is in progress,             *)
(* worker_thread_ is not joinable, for every interleaving of start() and   *)
(* stop() calls made from different threads.  (Stated for a process that   *)
(* has not been terminated.)                                               *)
(***************************************************************************)
C36_IdleHandleNotJoinable ==
    (~ aborted /\ ~ running /\ NoCallInProgress) => worker_thread = 0

\* stop() of the second thread has returned after start() of the first had
\* returned: the worker is joined and the handle is not joinable.
C36_Witness ==
    /\ ~ aborted /\ ~ running /\ NoCallInProgress
    /\ hist.res[Ctl] = "started" /\ hist.res[1] = "stopped" /\ hist.stopDone
    /\ pc[11] = "joined" /\ worker_thread = 0

(***************************************************************************)
(* Stopping, with no assumption on scheduling: the steps of NextStop.      *)
(***************************************************************************)
SpecStop == Init /\ [][NextStop]_vars

\* stop() found the collector running and has returned, no write has failed,
\* and the collector has not been started since.
StoppedClean ==
    ~ aborted /\ ~ running /\ hist.stopDone /\ ~ hist.failed /\ pc[Ctl] = "idle"

(***************************************************************************)
(* C37: when stop() has returned after a successful final write, and while *)
(* the collector is idle, every metric's accumulator is empty: no          *)
(* recordMetric call that read running_ as true before stop() cleared it   *)
(* adds a sample after the final flush.                                    *)
(***************************************************************************)
C37_EmptyAfterStop ==
    StoppedClean =>
       \A k \in 1 .. Len(metrics) : metrics[k].count_ = 0 /\ metrics[k].ids = {}

\* stop() has returned, its final flush wrote the sample of a recordMetric
\* call that had returned, and the accumulator is empty.
C37_Witness ==
    /\ StoppedClean /\ pc[1] = "idle" /\ Len(metrics) = 1
    /\ metrics[1].count_ = 0 /\ hist.added = {1}
    /\ Len(sink) = 1 /\ sink[1].ids = {1} /\ ncycle = 1

(***************************************************************************)
(* flush() on an idle collector: the controlling thread registers, starts  *)
(* the collector, stops it, calls flush() and closes the writer, at any    *)
(* time; a producer records and the worker flushes.                        *)
(***************************************************************************)
SpecIdleFlush ==
    Init /\ [][\/ RegisterFirst(Ctl) \/ Register(Ctl)
               \/ StartCall(Ctl, {11}) \/ Start(Ctl)
               \/ Stop(Ctl) \/ Flush(Ctl) \/ Collect(Ctl)
               \/ Close(Ctl)
               \/ RecordCall(1, SpecNames, LockKinds) \/ Record(1) \/ Register(1)
               \/ Collect(11) \/ WorkerLoop(11)]_vars

(***************************************************************************)
(* C38: flush() on an idle collector is a no-op.  The call that reads      *)
(* running_ as false returns at once: it takes no lock and no snapshot,    *)
(* does not call the writer and resets no metric, so the accumulators and  *)
(* the sink are as they were.                                              *)
(***************************************************************************)
C38_IdleFlushIsNoOp ==
    [][\A t \in Callers :
          (Leaves(t, "f_call") /\ ~ running) =>
             /\ pc'[t] = "idle" /\ hist'.res[t] = "flush_noop"
             /\ UNCHANGED <<running, metrics, metrics_mutex, write_mutex, sink,
                            file_open, clock, worker_thread>>]_vars

\* flush() has returned at once on a collector whose stop() had returned
\* after a failed final write: the sample is still in the accumulator and
\* the sink is empty.
C38_Witness ==
    /\ pc[Ctl] = "idle" /\ hist.res[Ctl] = "flush_noop" /\ ~ running
    /\ hist.stopDone /\ hist.failed /\ ~ file_open /\ ~ aborted
    /\ Len(metrics) = 1 /\ metrics[1].count_ = 1 /\ metrics[1].ids = {1}
    /\ sink = <<>> /\ pc[1] = "idle" /\ pc[11] = "joined"

(***************************************************************************)
(* MetricSystemManager: start(), stop(), registerMetric, recordMetric and  *)
(* flush() around the collector's.                                         *)
(***************************************************************************)
\* start(): if (is_running_) return;  (r: is_running_)
managerStartReturnsEarly(r) == r

\* stop(): if (!is_running_) return;  (r: is_running_)
managerStopReturnsEarly(r) == ~ r

\* recordMetric: if (!is_running_) return;  flush(): if (collector_ &&
\* is_running_) collector_->flush();  (r: is_running_)
managerForwards(r) == r

\* A variant of start() that leaves is_running_ as it was.
startedFlag_Unset == FALSE

\* start(): is_running_ = true; after collector_->start().
startedFlag == TRUE

\* stop(): is_running_ = false; after collector_->stop().
stoppedFlag == FALSE

\* The thread is in no member function of the manager or of the collector.
ManagerIdle(t) == pc[t] = "idle" /\ manager.call = "none"

\* MetricSystemManager::start(): the test, and the call of collector_->start().
ManagerStartCall(t, pool) ==
    /\ ManagerIdle(t)
    /\ \E w \in pool : pc[w] = "unborn"
    /\ IF managerStartReturnsEarly(manager.is_running_)
       THEN /\ hist' = [hist EXCEPT !.res[t] = "manager_start_noop"]
            /\ UNCHANGED <<pc, manager>>
       ELSE /\ pc' = [pc EXCEPT ![t] = "s_call"]
            /\ manager' = [manager EXCEPT !.call = "start"]
            /\ UNCHANGED hist
    /\ UNCHANGED <<running, metrics, metrics_mutex, worker_thread, file_open,
                   write_mutex, sink, clock, registry, loc, aborted, nrec, ncycle>>

\* MetricSystemManager::start(): collector_->start() has returned.
ManagerStartDone(t) ==
    /\ pc[t] = "idle" /\ manager.call = "start"
    /\ manager' = [is_running_ |-> startedFlag, call |-> "none"]
    /\ UNCHANGED <<running, metrics, metrics_mutex, worker_thread, file_open,
                   write_mutex, sink, clock, registry, pc, loc, aborted, nrec,
                   ncycle, hist>>

\* MetricSystemManager::stop(): the test, and the call of collector_->stop();
\* a cycle is kept for its final flush.
ManagerStopCall(t) ==
    /\ ManagerIdle(t)
    /\ IF managerStopReturnsEarly(manager.is_running_)
       THEN /\ hist' = [hist EXCEPT !.res[t] = "manager_stop_noop"]
            /\ UNCHANGED <<pc, manager, ncycle>>
       ELSE /\ ncycle < MaxCycles
            /\ ncycle' = ncycle + 1
            /\ pc' = [pc EXCEPT ![t] = "t_call"]
            /\ manager' = [manager EXCEPT !.call = "stop"]
            /\ hist' = [hist EXCEPT !.stopPre = hist.added, !.stopDone = FALSE]
    /\ UNCHANGED <<running, metrics, metrics_mutex, worker_thread, file_open,
                   write_mutex, sink, clock, registry, loc, aborted, nrec>>

\* MetricSystemManager::stop(): collector_->stop() has returned.
ManagerStopDone(t) ==
    /\ pc[t] = "idle" /\ manager.call = "stop"
    /\ manager' = [is_running_ |-> stoppedFlag, call |-> "none"]
    /\ UNCHANGED <<running, metrics, metrics_mutex, worker_thread, file_open,
                   write_mutex, sink, clock, registry, pc, loc, aborted, nrec,
                   ncycle, hist>>

\* MetricSystemManager::registerMetric<T>(name): collector_->registerMetric.
ManagerRegister(t, names, kinds) ==
    ManagerIdle(t) /\ RegisterCall(t, names, kinds)

\* MetricSystemManager::recordMetric<T>(name, value) with is_running_ set:
\* collector_->recordMetric.
ManagerRecord(t, names, kinds) ==
    /\ ManagerIdle(t) /\ managerForwards(manager.is_running_)
    /\ RecordCall(t, names, kinds)

\* MetricSystemManager::flush() with is_running_ set: collector_->flush().
ManagerFlush(t) ==
    /\ ManagerIdle(t) /\ managerForwards(manager.is_running_)
    /\ FlushCall(t)

\* recordMetric or flush() with is_running_ clear: the call returns.
ManagerIgnore(t) ==
    /\ ManagerIdle(t) /\ ~ managerForwards(manager.is_running_)
    /\ hist' = [hist EXCEPT !.res[t] = "manager_ignored"]
    /\ UNCHANGED <<running, metrics, metrics_mutex, worker_thread, file_open,
                   write_mutex, sink, clock, registry, pc, loc, aborted, nrec,
                   ncycle, manager>>

(***************************************************************************)
(* The manager used by one thread: it registers, starts and stops the      *)
(* system, records and calls flush(), one call after the other, while the  *)
(* worker flushes.                                                         *)
(***************************************************************************)
ManagerNames == {NameCPU}

SpecManager ==
    Init /\ [][\/ ManagerRegister(Ctl, ManagerNames, LockKinds) \/ Register(Ctl)
               \/ ManagerStartCall(Ctl, Workers) \/ Start(Ctl) \/ ManagerStartDone(Ctl)
               \/ ManagerStopCall(Ctl) \/ StopExchange(Ctl) \/ StopJoin(Ctl)
               \/ ManagerStopDone(Ctl)
               \/ ManagerRecord(Ctl, ManagerNames, LockKinds) \/ Record(Ctl)
               \/ ManagerFlush(Ctl) \/ FlushTest(Ctl) \/ ManagerIgnore(Ctl)
               \/ Collect(Ctl)
               \/ \E w \in Workers : Collect(w) \/ WorkerLoop(w)]_vars

\* What the accumulators hold, metric by metric.
Accumulated(ms) ==
    [k \in 1 .. Len(ms) |-> <<ms[k].accumulated_value_, ms[k].count_, ms[k].ids>>]

(***************************************************************************)
(* C39: whenever no call of the manager is in progress, is_running_ equals *)
(* the collector's running_, after any sequence of its start(), stop(),    *)
(* registerMetric, recordMetric and flush() calls.  While is_running_ is   *)
(* false and no start() or stop() is in progress, the controlling thread   *)
(* is never within the collector's recordMetric or flush(), and no step    *)
(* changes what an accumulator holds or appends to the sink; a             *)
(* registration of a name not yet registered adds the metric.  (Stated for *)
(* a process that has not been terminated.)                                *)
(***************************************************************************)
C39_ManagerFlagAgrees ==
    /\ [](~ aborted =>
            /\ ManagerIdle(Ctl) => manager.is_running_ = running
            /\ (~ manager.is_running_ /\ manager.call = "none") =>
                  pc[Ctl] \in {"idle", "g_lock", "g_body"})
    /\ [][(~ manager.is_running_ /\ manager.call = "none" /\ ~ aborted') =>
             /\ sink' = sink
             /\ \A k \in 1 .. Len(metrics) :
                   Accumulated(metrics')[k] = Accumulated(metrics)[k]
             /\ (Leaves(Ctl, "g_body") /\ FindMetric(metrics, loc[Ctl].name) = 0) =>
                   /\ Len(metrics') = Len(metrics) + 1
                   /\ metrics'[Len(metrics')].name = loc[Ctl].name
                   /\ hist'.res[Ctl] = "ok"]_vars

\* The manager was started, recorded a sample and was stopped, which wrote
\* the sample; then a recordMetric or flush() call was ignored:
\* is_running_ and running_ are false.
C39_Witness ==
    /\ ManagerIdle(Ctl) /\ ~ manager.is_running_ /\ ~ running /\ ~ aborted
    /\ hist.stopDone /\ hist.res[Ctl] = "manager_ignored"
    /\ Len(sink) = 1 /\ sink[1].ids = {1} /\ Len(metrics) = 1
    /\ metrics[1].count_ = 0

(***************************************************************************)
(* MetricNameValidator::formatNameForOutput and extractNameFromOutput, as  *)
(* calls of a thread.                                                      *)
(***************************************************************************)
MaxNameLen == 2

\* The characters of the names given: a line feed, the last control
\* character, a space, a double quote, a letter, and a byte above 127, which
\* is a negative char where char is signed and its own code where it is not.
NameChars == {10, 31, 32, 34, 67, 0 - 56, 200}

NameInputs == UNION {[1 .. n -> NameChars] : n \in 0 .. MaxNameLen}

\* formatNameForOutput(name): the exception, or the string returned.
formatNameResult(name) ==
    IF ~ isValidName(name)
    THEN [thrown |-> "invalid_argument", out |-> <<>>]
    ELSE [thrown |-> "none", out |-> formatNameForOutput(name)]

\* extractNameFromOutput(formattedName): the exception, or
\* formattedName.substr(1, formattedName.length() - 2).
extractNameFromOutput(f) ==
    IF Len(f) < 2 \/ f[1] # QuoteChar \/ f[Len(f)] # QuoteChar
    THEN [thrown |-> "invalid_argument", out |-> <<>>]
    ELSE [thrown |-> "none", out |-> SubSeq(f, 2, Len(f) - 1)]

\* The names are formatted before the collector is used.
CollectorUnused == metrics = <<>> /\ ~ running /\ pc[Ctl] = "idle"

\* A caller calls formatNameForOutput(name).
NameFormatCall(t) ==
    /\ pc[t] = "idle" /\ CollectorUnused
    /\ \E name \in NameInputs :
          loc' = [loc EXCEPT ![t] = [Loc0 EXCEPT !.name = name]]
    /\ pc' = [pc EXCEPT ![t] = "n_format"]
    /\ hist' = [hist EXCEPT !.res[t] = "none"]
    /\ UNCHANGED <<manager, running, metrics, metrics_mutex, worker_thread,
                   file_open, write_mutex, sink, clock, registry, aborted, nrec,
                   ncycle>>

\* formatNameForOutput: it throws, or returns the string, which the caller
\* passes to extractNameFromOutput.
NameFormat(t) ==
    /\ pc[t] = "n_format"
    /\ LET r == formatNameResult(loc[t].name)
       IN  IF r.thrown # "none"
           THEN /\ pc' = [pc EXCEPT ![t] = "n_done"]
                /\ hist' = [hist EXCEPT !.res[t] = r.thrown]
                /\ UNCHANGED loc
           ELSE /\ pc' = [pc EXCEPT ![t] = "n_extract"]
                /\ loc' = [loc EXCEPT ![t].text = r.out]
                /\ hist' = [hist EXCEPT !.res[t] = "formatted"]
    /\ UNCHANGED <<manager, running, metrics, metrics_mutex, worker_thread,
                   file_open, write_mutex, sink, clock, registry, aborted, nrec,
                   ncycle>>

\* A caller calls extractNameFromOutput on a string of its own.
NameExtractCall(t) ==
    /\ pc[t] = "idle" /\ CollectorUnused
    /\ \E f \in NameInputs :
          loc' = [loc EXCEPT ![t] = [Loc0 EXCEPT !.text = f]]
    /\ pc' = [pc EXCEPT ![t] = "n_extract"]
    /\ hist' = [hist EXCEPT !.res[t] = "none"]
    /\ UNCHANGED <<manager, running, metrics, metrics_mutex, worker_thread,
                   file_open, write_mutex, sink, clock, registry, aborted, nrec,
                   ncycle>>

\* extractNameFromOutput: it throws, or returns the name.
NameExtract(t) ==
    /\ pc[t] = "n_extract"
    /\ LET r == extractNameFromOutput(loc[t].text)
       IN  IF r.thrown # "none"
           THEN /\ hist' = [hist EXCEPT !.res[t] = "extract_failed"]
                /\ UNCHANGED loc
           ELSE /\ loc' = [loc EXCEPT ![t].back = r.out]
                /\ hist' = [hist EXCEPT !.res[t] = "extracted"]
    /\ pc' = [pc EXCEPT ![t] = "n_done"]
    /\ UNCHANGED <<manager, running, metrics, metrics_mutex, worker_thread,
                   file_open, write_mutex, sink, clock, registry, aborted, nrec,
                   ncycle>>

\* The caller goes on.
NameReturn(t) ==
    /\ pc[t] = "n_done"
    /\ pc' = [pc EXCEPT ![t] = "idle"]
    /\ loc' = [loc EXCEPT ![t] = Loc0]
    /\ UNCHANGED <<manager, running, metrics, metrics_mutex, worker_thread,
                   file_open, write_mutex, sink, clock, registry, aborted, nrec,
                   ncycle, hist>>

(***************************************************************************)
(* Names: a thread formats names and extracts them; then the controlling   *)
(* thread registers a valid name and one with a double quote and starts    *)
(* the collector, and the worker flushes.                                  *)
(***************************************************************************)
SinkNames == {NameCPU, NameQuote}

RegisterSinkName(t) ==
    ~ running /\ pc[2] = "idle" /\ RegisterCall(t, SinkNames, LockKinds)

SpecNameFormat ==
    Init /\ [][\/ NameFormatCall(2) \/ NameFormat(2)
               \/ NameExtractCall(2) \/ NameExtract(2) \/ NameReturn(2)
               \/ RegisterSinkName(Ctl) \/ Register(Ctl)
               \/ StartCall(Ctl, {11}) \/ Start(Ctl)
               \/ Collect(11) \/ WorkerLoop(11)]_vars

\* The names the validation is to reject: the empty name, and a name with a
\* double quote or a character below 32.
Rejected(name) ==
    \/ name = <<>>
    \/ \E k \in 1 .. Len(name) : name[k] = QuoteChar \/ name[k] < FirstPrintable

\* The string has exactly two double quotes, its first and its last character.
TwoQuotes(f) ==
    /\ Len(f) >= 2 /\ f[1] = QuoteChar /\ f[Len(f)] = QuoteChar
    /\ \A k \in 2 .. Len(f) - 1 : f[k] # QuoteChar

(***************************************************************************)
(* C40: formatNameForOutput throws for exactly the names that are empty or *)
(* hold a double quote or a character below 32, which are those that       *)
(* isValidName rejects; for every other name n it returns a string with    *)
(* exactly two double quotes, the first and the last character, from which *)
(* extractNameFromOutput returns n.  The name of every line in the sink is *)
(* such a string.                                                          *)
(***************************************************************************)
C40_NameRoundTrip ==
    /\ [](\A k \in 1 .. Len(sink) : TwoQuotes(sink[k].name))
    /\ [](\A name \in NameInputs : Rejected(name) <=> ~ isValidName(name))
    /\ [][\A t \in Callers :
             /\ Leaves(t, "n_format") =>
                   IF Rejected(loc[t].name)
                   THEN hist'.res[t] = "invalid_argument" /\ pc'[t] = "n_done"
                   ELSE /\ hist'.res[t] = "formatted" /\ pc'[t] = "n_extract"
                        /\ TwoQuotes(loc'[t].text)
             /\ (Leaves(t, "n_extract") /\ hist.res[t] = "formatted") =>
                   /\ hist'.res[t] = "extracted"
                   /\ loc'[t].back = loc[t].name]_vars

\* A name with a space and a byte above 127 on a build where char is
\* unsigned was formatted, and extracted from the string returned.
C40_Witness ==
    /\ pc[2] = "n_done" /\ hist.res[2] = "extracted"
    /\ loc[2].name = <<32, 200>> /\ loc[2].text = <<34, 32, 200, 34>>
    /\ loc[2].back = <<32, 200>>
====
